---- MODULE Spec2Model ----
(***************************************************************************)
(* Voice manager of engine/audio/audio.cc: the fixed pool of OpenAL voices *)
(* (mHandle/mScore/mSourceVolume/mType), the looping and streaming lists,  *)
(* eviction (cullSource), reactivation (alxLoopingUpdate,                  *)
(* alxStreamingUpdate) and the public calls alxCreateSource, alxPlay,      *)
(* alxStop, alxStopAll and alxUpdate.                                      *)
(*                                                                         *)
(* Gains and scores are F32 in the source; here they are integers in       *)
(* hundredths, and a product is rounded down to a hundredth.  An          *)
(* AUDIOHANDLE is a 32-bit word; here it is the                            *)
(* record of its bit fields (seq = the low 28 bits).  All sources are 2D.  *)
(* A failed AssertFatal stops the program: fatal records its message.      *)
(***************************************************************************)
EXTENDS Integers, FiniteSets, Sequences, TLC

\* ---------------------------------------------------------------- bounds
\* voices granted by the device, handles minted, and the last clock value (ms)
mNumSources == 2
MaxCreates == 3
MaxClock == 500
\* handles minted where a streaming source is evicted and then competes for
\* a voice again
MaxStreamCreates == 4
\* how far from zero and from the largest sequence number the handle counter
\* is followed
HandleWindow == 60
\* linear gains are followed in steps of 1 / (logmax * GainSub)
GainSub == 2

\* ------------------------------------------------------ program constants
\* MIN_GAIN 0.05f and MIN_UNCULL_GAIN 0.1f in hundredths; HandleSeqMax is the
\* largest value of mLastHandle & HANDLE_MASK that an increment reaches
MAX_AUDIOSOURCES == 16
MIN_GAIN == 5
MIN_UNCULL_PERIOD == 500
MIN_UNCULL_GAIN == 10
\* pitch 1.f, in hundredths
DefaultPitch == 100
HandleSeqMax == 268435455
AUDIOHANDLE_LOADING_BIT == 268435456
AUDIOHANDLE_STREAMING_BIT == 1073741824

Slots == 0 .. (mNumSources - 1)
AudioTypes == {0}
Volumes == {4, 20, 90}
TypeVolumes == {50, 100}
ClockSteps == {500}
NoFatal == "none"

\* F32 product of two gains in hundredths
Mul(a, b) == (a * b) \div 100

\* ---------------------------------------------------------------- handles
NULL_AUDIOHANDLE ==
  [seq |-> 0, looping |-> FALSE, streaming |-> FALSE, inactive |-> FALSE, loading |-> FALSE]

\* h | AUDIOHANDLE_x_BIT and h & ~(...)
SetLooping(h) == [h EXCEPT !.looping = TRUE]
SetStreaming(h) == [h EXCEPT !.streaming = TRUE]
\* an OR that sets no bit
SetNoBit(h) == h

SetInactive(h) == [h EXCEPT !.inactive = TRUE]
SetLoading(h) == [h EXCEPT !.loading = TRUE]
\* an AND that clears the LOADING bit alone
ClearLoadingOnly(h) == [h EXCEPT !.loading = FALSE]

ClearInactiveLoading(h) == [h EXCEPT !.inactive = FALSE, !.loading = FALSE]

\* h & HANDLE_MASK: HANDLE_MASK clears LOOPING, INACTIVE and LOADING, and keeps
\* the STREAMING bit with the sequence bits
HANDLE_MASK(h) == [h EXCEPT !.looping = FALSE, !.inactive = FALSE, !.loading = FALSE]

\* a mask that clears the INACTIVE bit only
ReturnMaskKeepsLoading(h) == [h EXCEPT !.inactive = FALSE]

\* h & RETURN_MASK
RETURN_MASK(h) == [h EXCEPT !.inactive = FALSE, !.loading = FALSE]

areEqualHandles(a, b) == HANDLE_MASK(a) = HANDLE_MASK(b)

\* a counter that stops at its first value
getNewHandleStuck(last) == IF last = 0 THEN 1 ELSE last

\* w & HANDLE_MASK for a handle kept as a number below 2^31: the bits under
\* the LOADING bit and the STREAMING bit stay, LOADING and INACTIVE go
HandleMaskWord(w) ==
  (w % AUDIOHANDLE_LOADING_BIT)
    + ((w \div AUDIOHANDLE_STREAMING_BIT) % 2) * AUDIOHANDLE_STREAMING_BIT

\* a counter that is masked and not moved off zero
getNewHandleNoSkip(last) == HandleMaskWord(last + 1)

\* mLastHandle++; mLastHandle &= HANDLE_MASK; if 0 then ++ : the value after
\* 0x0FFFFFFF is 0x10000000, the LOADING bit, which the mask clears
getNewHandle(last) ==
  LET n == HandleMaskWord(last + 1)
  IN IF n = 0 THEN 1 ELSE n

Handle(n) == [NULL_AUDIOHANDLE EXCEPT !.seq = n]

\* ------------------------------------------------------------------ state
VARIABLES
  mHandle, mScore, mSourceVolume, mType, alPlaying, alPitch,
  mLoopingList, mLoopingInactiveList, mLoopingCulledList,
  mStreamingList, mStreamingInactiveList, mStreamingCulledList,
  mLastHandle, mAudioTypeVolume, now, fatal,
  last, cullLog, promoLog,
  gain, tieOrder

vars == <<mHandle, mScore, mSourceVolume, mType, alPlaying, alPitch,
          mLoopingList, mLoopingInactiveList, mLoopingCulledList,
          mStreamingList, mStreamingInactiveList, mStreamingCulledList,
          mLastHandle, mAudioTypeVolume, now, fatal,
          last, cullLog, promoLog, gain, tieOrder>>

\* the program state as one value, threaded through the handlers
St ==
  [mHandle |-> mHandle, mScore |-> mScore, mSourceVolume |-> mSourceVolume,
   mType |-> mType, alPlaying |-> alPlaying, alPitch |-> alPitch,
   mLoopingList |-> mLoopingList, mLoopingInactiveList |-> mLoopingInactiveList,
   mLoopingCulledList |-> mLoopingCulledList,
   mStreamingList |-> mStreamingList, mStreamingInactiveList |-> mStreamingInactiveList,
   mStreamingCulledList |-> mStreamingCulledList,
   mLastHandle |-> mLastHandle, mAudioTypeVolume |-> mAudioTypeVolume,
   now |-> now, fatal |-> fatal, cullLog |-> {}, promoLog |-> {}]

\* what the claims call the pool: slots and list membership
Pool(s) ==
  <<s.mHandle, DOMAIN s.mLoopingList, s.mLoopingInactiveList, s.mLoopingCulledList,
    DOMAIN s.mStreamingList, s.mStreamingInactiveList, s.mStreamingCulledList>>

\* AssertFatal(cond, msg)
AssertFatal(s, cond, msg) ==
  IF s.fatal = NoFatal /\ ~cond THEN [s EXCEPT !.fatal = msg] ELSE s

\* f @@ (k :> v) without the TLC operators' precedence surprises
Put(f, k, v) == [x \in (DOMAIN f) \cup {k} |-> IF x = k THEN v ELSE f[x]]
Drop(f, k) == [x \in (DOMAIN f) \ {k} |-> f[x]]

\* ------------------------------------------------------------- list search
\* LoopingList::findImage over the ids in list; 0 is the null iterator
LoopingFindImage(s, list, handle) ==
  IF handle.looping /\ \E id \in list : areEqualHandles(s.mLoopingList[id].mHandle, handle)
  THEN CHOOSE id \in list : areEqualHandles(s.mLoopingList[id].mHandle, handle)
  ELSE 0

StreamingFindImage(s, list, handle) ==
  IF handle.streaming /\ \E id \in list : areEqualHandles(s.mStreamingList[id].mHandle, handle)
  THEN CHOOSE id \in list : areEqualHandles(s.mStreamingList[id].mHandle, handle)
  ELSE 0

findFreeSource(s) ==
  IF \E i \in Slots : s.mHandle[i] = NULL_AUDIOHANDLE
  THEN CHOOSE i \in Slots : s.mHandle[i] = NULL_AUDIOHANDLE
                            /\ \A j \in Slots : s.mHandle[j] = NULL_AUDIOHANDLE => i <= j
  ELSE MAX_AUDIOSOURCES

\* a search that answers the first slot when no slot holds the handle
alxFindIndexOrFirst(s, handle) ==
  LET hit(i) == s.mHandle[i] # NULL_AUDIOHANDLE /\ areEqualHandles(s.mHandle[i], handle)
  IN IF \E i \in Slots : hit(i)
     THEN CHOOSE i \in Slots : hit(i) /\ \A j \in Slots : hit(j) => i <= j
     ELSE 0

alxFindIndex(s, handle) ==
  LET hit(i) == s.mHandle[i] # NULL_AUDIOHANDLE /\ areEqualHandles(s.mHandle[i], handle)
  IN IF \E i \in Slots : hit(i)
     THEN CHOOSE i \in Slots : hit(i) /\ \A j \in Slots : hit(j) => i <= j
     ELSE MAX_AUDIOSOURCES

alxIsPlaying(s, handle) ==
  IF handle = NULL_AUDIOHANDLE THEN FALSE
  ELSE LET idx == alxFindIndex(s, handle)
       IN IF idx = MAX_AUDIOSOURCES THEN FALSE ELSE s.alPlaying[idx]

\* alxIsValidHandle(handle): a source waiting in a slot is valid, one that was
\* played is valid while its voice plays, an image or streaming source is valid
alxIsValidHandle(s, handle) ==
  IF handle = NULL_AUDIOHANDLE THEN FALSE
  ELSE LET idx == alxFindIndex(s, handle)
       IN IF idx # MAX_AUDIOSOURCES
          THEN s.mHandle[idx].inactive \/ s.alPlaying[idx]
          ELSE \/ LoopingFindImage(s, DOMAIN s.mLoopingList, handle) # 0
               \/ StreamingFindImage(s, DOMAIN s.mStreamingList, handle) # 0

\* ----------------------------------------------------------------- scores
\* alxUpdateScores for one slot (2D: no distance term)
SlotScore(s, i) ==
  IF s.mHandle[i] = NULL_AUDIOHANDLE THEN 0
  ELSE Mul(s.mSourceVolume[i], s.mAudioTypeVolume[s.mType[i]])

\* alxUpdateScores for one looping image or streaming source without a voice
ImageScore(s, img) ==
  IF ~img.mHandle.inactive THEN img.mScore
  ELSE IF (s.now - img.mCullTime) < MIN_UNCULL_PERIOD THEN img.mScore
  ELSE Mul(img.mVolume, s.mAudioTypeVolume[img.mType])

alxUpdateScores(s, sourcesOnly) ==
  LET s1 == [s EXCEPT !.mScore = [i \in Slots |-> SlotScore(s, i)]]
  IN IF sourcesOnly THEN s1
     ELSE [s1 EXCEPT
            !.mLoopingList = [id \in DOMAIN s.mLoopingList |->
               [s.mLoopingList[id] EXCEPT !.mScore = ImageScore(s, s.mLoopingList[id])]],
            !.mStreamingList = [id \in DOMAIN s.mStreamingList |->
               [s.mStreamingList[id] EXCEPT !.mScore = ImageScore(s, s.mStreamingList[id])]]]

\* --------------------------------------------------------------- eviction
\* a scan that takes a slot whatever its score
cullAnyScore(score, minVolume) == TRUE

\* a scan that also takes a slot whose score equals the requested volume
cullBelowOrEqual(score, minVolume) == score <= minVolume

\* the comparison of cullSource's scan
cullBelow(score, minVolume) == score < minVolume

\* a scan that stops at the first slot scoring below the requested volume
RECURSIVE cullScanFirst(_, _, _, _)
cullScanFirst(s, i, minVolume, best) ==
  IF i >= mNumSources THEN best
  ELSE IF best = -1 /\ cullBelow(s.mScore[i], minVolume)
       THEN cullScanFirst(s, i + 1, minVolume, i)
       ELSE cullScanFirst(s, i + 1, minVolume, best)

\* the scan of cullSource from slot i on: the first slot of least score below volume
RECURSIVE cullScan(_, _, _, _)
cullScan(s, i, minVolume, best) ==
  IF i >= mNumSources THEN best
  ELSE IF cullBelow(s.mScore[i], minVolume)
       THEN cullScan(s, i + 1, s.mScore[i], i)
       ELSE cullScan(s, i + 1, minVolume, best)

\* cullSource's bookkeeping for a looping victim in slot best
cullLooper(s, best) ==
  LET h == s.mHandle[best]
      itr == LoopingFindImage(s, DOMAIN s.mLoopingList, h)
  IN IF itr = 0 THEN s
     ELSE IF h.inactive
     THEN LET a1 == AssertFatal(s, LoopingFindImage(s, s.mLoopingInactiveList, h) = 0,
                                "cullSource: image already in inactive list")
              a2 == AssertFatal(a1, LoopingFindImage(s, s.mLoopingCulledList, h) = 0,
                                "cullSource: image should not be in culled list")
          IN IF a2.fatal # NoFatal THEN a2
             ELSE [a2 EXCEPT !.mLoopingInactiveList = @ \cup {itr}]
     ELSE LET a1 == AssertFatal(s, LoopingFindImage(s, s.mLoopingCulledList, h) = 0,
                                "cullSource: image already in culled list")
              a2 == AssertFatal(a1, LoopingFindImage(s, s.mLoopingInactiveList, h) = 0,
                                "cullSource: image should no be in inactive list")
          IN IF a2.fatal # NoFatal
             THEN [a2 EXCEPT !.mLoopingList[itr].mHandle = SetInactive(@)]
             ELSE [a2 EXCEPT !.mLoopingList[itr].mHandle = SetInactive(@),
                             !.mLoopingList[itr].mCullTime = s.now,
                             !.mLoopingList[itr].gCull = s.now,
                             !.mLoopingCulledList = @ \cup {itr}]

\* cullSource's bookkeeping for a streaming victim in slot best
cullStreamer(s, best) ==
  LET h == s.mHandle[best]
      itr2 == StreamingFindImage(s, DOMAIN s.mStreamingList, h)
  IN IF s.fatal # NoFatal \/ itr2 = 0 THEN s
     ELSE IF h.inactive
     THEN LET a1 == AssertFatal(s, StreamingFindImage(s, s.mStreamingInactiveList, h) = 0,
                                "cullSource: image already in inactive list")
              a2 == AssertFatal(a1, StreamingFindImage(s, s.mStreamingCulledList, h) = 0,
                                "cullSource: image should not be in culled list")
          IN IF a2.fatal # NoFatal THEN a2
             ELSE [a2 EXCEPT !.mStreamingInactiveList = @ \cup {itr2}]
     ELSE LET a1 == AssertFatal(s, StreamingFindImage(s, s.mStreamingCulledList, h) = 0,
                                "cullSource: image already in culled list")
              a2 == AssertFatal(a1, StreamingFindImage(s, s.mStreamingInactiveList, h) = 0,
                                "cullSource: image should no be in inactive list")
          IN IF a2.fatal # NoFatal
             THEN [a2 EXCEPT !.mStreamingList[itr2].mHandle = SetInactive(@)]
             ELSE [a2 EXCEPT !.mStreamingList[itr2].mHandle = SetInactive(@),
                             !.mStreamingList[itr2].stream = FALSE,
                             !.mStreamingList[itr2].mCullTime = s.now,
                             !.mStreamingList[itr2].gCull = s.now,
                             !.mStreamingCulledList = @ \cup {itr2}]

\* an end of cullSource that stops the voice and leaves the handle in the slot
cullFreeKeepsHandle(s2, best) ==
  IF s2.fatal # NoFatal THEN [s |-> s2, ok |-> FALSE, index |-> MAX_AUDIOSOURCES]
  ELSE [s |-> [s2 EXCEPT !.alPlaying[best] = FALSE], ok |-> TRUE, index |-> best]

\* the end of cullSource: alSourceStop(mSource[best]); mHandle[best] = NULL
cullFree(s2, best) ==
  IF s2.fatal # NoFatal THEN [s |-> s2, ok |-> FALSE, index |-> MAX_AUDIOSOURCES]
  ELSE [s |-> [s2 EXCEPT !.alPlaying[best] = FALSE,
                         !.mHandle[best] = NULL_AUDIOHANDLE],
        ok |-> TRUE, index |-> best]

cullVictim(s, best) ==
  IF best = -1 THEN [s |-> s, ok |-> FALSE, index |-> MAX_AUDIOSOURCES]
  ELSE cullFree(cullStreamer(cullLooper(s, best), best), best)

\* cullSource(&index, volume): [s, ok, index]
cullSource(s, volume) == cullVictim(s, cullScan(s, 0, volume, -1))

\* the record of a cullSource call for the claims: the score stored for the
\* freed slot, the requested volume, and whether slots or lists changed
cullLogged(s, volume, r) ==
  [r EXCEPT !.s.cullLog = @ \cup
     {[ok |-> r.ok, volume |-> volume,
       score |-> IF r.ok THEN s.mScore[r.index] ELSE -1,
       allGE |-> \A i \in Slots : s.mScore[i] >= volume,
       same |-> Pool(r.s) = Pool(s)]}]

cullSourceLogged(s, volume) == cullLogged(s, volume, cullSource(s, volume))

\* ------------------------------------------------------------------- sort
\* the F32 difference of two scores converted to int: truncation toward zero
TruncToInt(d) == IF d >= 0 THEN d \div 100 ELSE -((-d) \div 100)

\* loopingImageSort / streamingSourceSort: return ip2->mScore - ip1->mScore
loopingImageSort(score1, score2) == TruncToInt(score2 - score1)

\* dQsort with that comparator: some order in which no element follows one the
\* comparator puts after it; elements that compare equal fall as rank says
SortByScore(score, cands, rank) ==
  LET n == Cardinality(cands)
      before(a, b) == \/ loopingImageSort(score[a], score[b]) < 0
                      \/ loopingImageSort(score[a], score[b]) = 0 /\ rank[a] < rank[b]
  IN CHOOSE q \in [1 .. n -> cands] :
       /\ \A i, j \in 1 .. n : i # j => q[i] # q[j]
       /\ \A i, j \in 1 .. n : i < j => before(q[i], q[j])

\* ----------------------------------------------------- play and reactivation
RECURSIVE alxPlay(_, _, _)
RECURSIVE loopingPass(_, _, _, _)
RECURSIVE streamingPass(_, _, _, _)

\* the tail of alxLoopingUpdate's loop body: the candidate takes slot index
loopingRestore(s, id, index, rank) ==
  LET img == s.mLoopingList[id]
      tmp == LoopingFindImage(s, s.mLoopingCulledList, img.mHandle)
      a == AssertFatal(s, tmp # 0, "alxLoopingUpdate: failed to find culled source")
  IN IF a.fatal # NoFatal THEN a
     ELSE LET s1 == [a EXCEPT !.mLoopingCulledList = @ \ {tmp},
                              !.mHandle[index] = img.mHandle,
                              !.mScore[index] = img.mScore,
                              !.mSourceVolume[index] = img.mVolume,
                              !.mType[index] = img.mType,
                              !.alPitch[index] = DefaultPitch,
                              !.mLoopingList[id].gCull = -1,
                              !.promoLog = @ \cup {[id |-> id, culledAt |-> img.gCull]}]
          IN alxPlay(s1, s1.mHandle[index], rank).s

\* the candidate's image has no buffer: it is erased from the culled list and
\* from mLoopingList; tmp is where the culled list holds it
loopingDiscard(s, id, tmp) ==
  IF tmp = 0
  THEN AssertFatal(s, FALSE, "alxLoopingUpdate: failed to find culled source")
  ELSE [s EXCEPT !.mLoopingCulledList = @ \ {tmp}, !.mLoopingList = Drop(@, id)]

\* the loop body of alxLoopingUpdate once cullSource has answered r
loopingCulled(r, id, q, k, rank) ==
  IF ~r.ok THEN r.s
  ELSE IF ~r.s.mLoopingList[id].mBuffer
  THEN loopingPass(loopingDiscard(r.s, id,
                     LoopingFindImage(r.s, r.s.mLoopingCulledList, r.s.mLoopingList[id].mHandle)),
                   q, k + 1, rank)
  ELSE loopingPass(loopingRestore(r.s, id, r.index, rank), q, k + 1, rank)

\* the loop of alxLoopingUpdate over the sorted candidates q, from position k
loopingPass(s, q, k, rank) ==
  IF k > Len(q) \/ s.fatal # NoFatal THEN s
  ELSE IF findFreeSource(s) # MAX_AUDIOSOURCES
  THEN loopingPass(loopingRestore(s, q[k], findFreeSource(s), rank), q, k + 1, rank)
  ELSE loopingCulled(cullSourceLogged(s, s.mLoopingList[q[k]].mScore), q[k], q, k, rank)

\* a pass that finds no culled image worth waking
loopingNoCandidates(s) == {}

\* the culled images alxLoopingUpdate copies into its static culledList
loopingCandidates(s) ==
  {id \in s.mLoopingCulledList :
     /\ ~(s.mLoopingList[id].mScore <= MIN_UNCULL_GAIN)
     /\ ~((s.now - s.mLoopingList[id].mCullTime) < MIN_UNCULL_PERIOD)}

\* culledList after culledList.sort()
loopingOrder(s, rank) ==
  SortByScore([id \in loopingCandidates(s) |-> s.mLoopingList[id].mScore],
              loopingCandidates(s), rank)

alxLoopingUpdate(s, rank) ==
  IF s.fatal # NoFatal \/ s.mLoopingCulledList = {} THEN s
  ELSE IF loopingCandidates(s) = {} THEN s
  ELSE loopingPass(s, loopingOrder(s, rank), 1, rank)

\* the voice alxSourcePlay(*itr) configures when alxStreamingUpdate calls it:
\* the one mSource names at that point, which is assigned only afterwards
streamingVoice(src, index) == src.mSource

\* the tail of alxStreamingUpdate's loop body: the candidate takes slot index
streamingRestore(s, id, index, rank) ==
  LET src == s.mStreamingList[id]
      tmp == StreamingFindImage(s, s.mStreamingCulledList, src.mHandle)
      a == AssertFatal(s, tmp # 0, "alxStreamingUpdate: failed to find culled source")
  IN IF a.fatal # NoFatal THEN a
     ELSE LET s1 == [a EXCEPT !.mStreamingCulledList = @ \ {tmp},
                              !.mStreamingList[id].stream = TRUE,
                              !.mStreamingList[id].gVoice = streamingVoice(src, index),
                              !.mStreamingList[id].mSource = index,
                              !.mStreamingList[id].gCull = -1,
                              !.mHandle[index] = src.mHandle,
                              !.mScore[index] = src.mScore,
                              !.mSourceVolume[index] = src.mVolume,
                              !.mType[index] = src.mType,
                              !.alPitch[streamingVoice(src, index)] = DefaultPitch,
                              !.promoLog = @ \cup {[id |-> id, culledAt |-> src.gCull]}]
          IN alxPlay(s1, s1.mHandle[index], rank).s

\* after a successful cullSource the candidate is erased from the culled list
\* and deleted; tmp is where the culled list holds it
streamingDiscard(s, id, tmp) ==
  IF tmp = 0
  THEN AssertFatal(s, FALSE, "alxStreamingUpdate: failed to find culled source")
  ELSE [s EXCEPT !.mStreamingCulledList = @ \ {tmp}, !.mStreamingList = Drop(@, id)]

\* the loop body of alxStreamingUpdate once cullSource has answered r: the
\* candidate is discarded and the loop continues
streamingCulled(r, id, q, k, rank) ==
  IF ~r.ok THEN r.s
  ELSE streamingPass(streamingDiscard(r.s, id,
                       StreamingFindImage(r.s, r.s.mStreamingCulledList,
                                          r.s.mStreamingList[id].mHandle)),
                     q, k + 1, rank)

\* the loop of alxStreamingUpdate over the sorted candidates q, from position k
streamingPass(s, q, k, rank) ==
  IF k > Len(q) \/ s.fatal # NoFatal THEN s
  ELSE IF findFreeSource(s) # MAX_AUDIOSOURCES
  THEN streamingPass(streamingRestore(s, q[k], findFreeSource(s), rank), q, k + 1, rank)
  ELSE streamingCulled(cullSourceLogged(s, s.mStreamingList[q[k]].mScore), q[k], q, k, rank)

\* the culled sources alxStreamingUpdate copies into its static culledList
streamingCandidates(s) ==
  {id \in s.mStreamingCulledList :
     /\ ~(s.mStreamingList[id].mScore <= MIN_UNCULL_GAIN)
     /\ ~((s.now - s.mStreamingList[id].mCullTime) < MIN_UNCULL_PERIOD)}

\* culledList after culledList.sort()
streamingOrder(s, rank) ==
  SortByScore([id \in streamingCandidates(s) |-> s.mStreamingList[id].mScore],
              streamingCandidates(s), rank)

alxStreamingUpdate(s, rank) ==
  IF s.fatal # NoFatal \/ s.mStreamingCulledList = {} THEN s
  ELSE IF streamingCandidates(s) = {} THEN s
  ELSE streamingPass(s, streamingOrder(s, rank), 1, rank)

\* alxPlay has accepted the handle of looping image itr
loopingPlayed(s, itr) == [s EXCEPT !.mLoopingList[itr].gPlayed = TRUE]

\* a move that leaves the image in the inactive list as well
loopingPendKept(s, itr) == [s EXCEPT !.mLoopingCulledList = @ \cup {itr}]

\* alxPlay's move of an inactive looping image to the culled list
loopingPend(s, itr) ==
  [s EXCEPT !.mLoopingCulledList = @ \cup {itr},
            !.mLoopingInactiveList = @ \ {itr}]

\* alxPlay(handle): [s, ret].  The streaming half of the else branch follows
\* an if / else if / else whose three arms all return, and never runs.
alxPlay(s, handle, rank) ==
  LET index == alxFindIndex(s, handle)
  IN IF index # MAX_AUDIOSOURCES
     THEN IF s.mHandle[index].inactive
          THEN LET itr == LoopingFindImage(s, DOMAIN s.mLoopingList, handle)
                   itr2 == StreamingFindImage(s, DOMAIN s.mStreamingList, handle)
                   s1 == [s EXCEPT !.mHandle[index] = ClearInactiveLoading(@)]
                   s2 == IF itr = 0 THEN s1
                         ELSE loopingPlayed(
                                [s1 EXCEPT !.mLoopingList[itr].mHandle = ClearInactiveLoading(@)],
                                itr)
                   s3 == IF itr2 = 0 THEN s2
                         ELSE [s2 EXCEPT !.mStreamingList[itr2].mHandle = ClearInactiveLoading(@)]
               IN [s |-> [s3 EXCEPT !.alPlaying[index] = TRUE], ret |-> handle]
          ELSE [s |-> s, ret |-> handle]
     ELSE LET itr == LoopingFindImage(s, s.mLoopingInactiveList, handle)
          IN IF itr # 0
             THEN LET a == AssertFatal(s, LoopingFindImage(s, s.mLoopingCulledList, handle) = 0,
                                       "alxPlay: image already in culled list")
                  IN IF a.fatal # NoFatal THEN [s |-> a, ret |-> NULL_AUDIOHANDLE]
                     ELSE [s |-> alxLoopingUpdate(loopingPend(loopingPlayed(a, itr), itr), rank),
                           ret |-> handle]
             ELSE IF LoopingFindImage(s, s.mLoopingCulledList, handle) # 0
             THEN [s |-> alxLoopingUpdate(s, rank), ret |-> handle]
             ELSE [s |-> s, ret |-> NULL_AUDIOHANDLE]

\* ------------------------------------------------------------------- stop
\* alxStop's removal of the looping image of handle
stopLooper(s, handle) ==
  LET itr == LoopingFindImage(s, DOMAIN s.mLoopingList, handle)
  IN IF s.fatal # NoFatal \/ itr = 0 THEN s
     ELSE LET img == s.mLoopingList[itr]
              tmp == LoopingFindImage(s, s.mLoopingInactiveList, handle)
              tmpc == LoopingFindImage(s, s.mLoopingCulledList, handle)
              s1 == IF ~img.mHandle.inactive THEN s
                    ELSE IF tmp # 0 THEN [s EXCEPT !.mLoopingInactiveList = @ \ {tmp}]
                    ELSE LET a == AssertFatal(s, tmpc # 0,
                                     "alxStop: failed to find inactive looping source")
                         IN IF a.fatal # NoFatal THEN a
                            ELSE [a EXCEPT !.mLoopingCulledList = @ \ {tmpc}]
              a1 == AssertFatal(s1, LoopingFindImage(s1, s1.mLoopingInactiveList, img.mHandle) = 0,
                                "alxStop: handle in inactive list")
              a2 == AssertFatal(a1, LoopingFindImage(s1, s1.mLoopingCulledList, img.mHandle) = 0,
                                "alxStop: handle in culled list")
          IN IF a2.fatal # NoFatal THEN a2
             ELSE [a2 EXCEPT !.mLoopingList = Drop(@, itr)]

\* alxStop's removal of the streaming source of handle (freeStream, delete)
stopStreamer(s, handle) ==
  LET itr2 == StreamingFindImage(s, DOMAIN s.mStreamingList, handle)
  IN IF s.fatal # NoFatal \/ itr2 = 0 THEN s
     ELSE LET src == s.mStreamingList[itr2]
              tmp == StreamingFindImage(s, s.mStreamingInactiveList, handle)
              tmpc == StreamingFindImage(s, s.mStreamingCulledList, handle)
              s1 == IF ~src.mHandle.inactive THEN s
                    ELSE IF tmp # 0 THEN [s EXCEPT !.mStreamingInactiveList = @ \ {tmp}]
                    ELSE LET a == AssertFatal(s, tmpc # 0,
                                     "alxStop: failed to find inactive looping source")
                         IN IF a.fatal # NoFatal THEN a
                            ELSE [a EXCEPT !.mStreamingCulledList = @ \ {tmpc}]
              a1 == AssertFatal(s1, StreamingFindImage(s1, s1.mStreamingInactiveList, src.mHandle) = 0,
                                "alxStop: handle in inactive list")
              a2 == AssertFatal(a1, StreamingFindImage(s1, s1.mStreamingCulledList, src.mHandle) = 0,
                                "alxStop: handle in culled list")
          IN IF a2.fatal # NoFatal THEN a2
             ELSE [a2 EXCEPT !.mStreamingList = Drop(@, itr2)]

alxStop(s, handle) ==
  LET index == alxFindIndex(s, handle)
      s1 == IF index = MAX_AUDIOSOURCES THEN s
            ELSE [s EXCEPT !.alPlaying[index] = IF s.mHandle[index].inactive THEN @ ELSE FALSE,
                           !.mHandle[index] = NULL_AUDIOHANDLE]
  IN stopStreamer(stopLooper(s1, handle), handle)

\* the three loops of alxStopAll
RECURSIVE stopAllSlots(_, _)
stopAllSlots(s, i) ==
  IF i < 0 \/ s.fatal # NoFatal THEN s
  ELSE IF s.mHandle[i] # NULL_AUDIOHANDLE
       THEN stopAllSlots(alxStop(s, s.mHandle[i]), i - 1)
       ELSE stopAllSlots(s, i - 1)

RECURSIVE stopAllLoopers(_)
stopAllLoopers(s) ==
  IF s.fatal # NoFatal \/ DOMAIN s.mLoopingList = {} THEN s
  ELSE LET lastId == CHOOSE id \in DOMAIN s.mLoopingList :
                       \A o \in DOMAIN s.mLoopingList : o <= id
       IN stopAllLoopers(alxStop(s, s.mLoopingList[lastId].mHandle))

RECURSIVE stopAllStreamers(_)
stopAllStreamers(s) ==
  IF s.fatal # NoFatal \/ DOMAIN s.mStreamingList = {} THEN s
  ELSE LET lastId == CHOOSE id \in DOMAIN s.mStreamingList :
                       \A o \in DOMAIN s.mStreamingList : o <= id
       IN stopAllStreamers(alxStop(s, s.mStreamingList[lastId].mHandle))

alxStopAll(s) == stopAllStreamers(stopAllLoopers(stopAllSlots(s, mNumSources - 1)))

\* ----------------------------------------------------------------- update
\* a pass that leaves every slot as it found it
closeHandleKeeps(s, i) == s

\* one iteration of alxCloseHandles' loop
closeHandle(s, i) ==
  LET h == s.mHandle[i]
      itr == LoopingFindImage(s, DOMAIN s.mLoopingList, h)
  IN IF s.fatal # NoFatal THEN s
     ELSE IF h.loading THEN s
     ELSE IF h = NULL_AUDIOHANDLE THEN s
     ELSE IF s.alPlaying[i] THEN s
     ELSE IF ~h.inactive /\ itr # 0 /\ ~s.mLoopingList[itr].mHandle.inactive
     THEN LET ih == s.mLoopingList[itr].mHandle
              a1 == AssertFatal(s, LoopingFindImage(s, s.mLoopingInactiveList, ih) = 0,
                                "alxCloseHandles: image incorrectly in inactive list")
              a2 == AssertFatal(a1, LoopingFindImage(s, s.mLoopingCulledList, ih) = 0,
                                "alxCloseHandles: image already in culled list")
          IN IF a2.fatal # NoFatal THEN a2
             ELSE [a2 EXCEPT !.mLoopingCulledList = @ \cup {itr},
                             !.mLoopingList[itr].mHandle = SetInactive(@),
                             !.mLoopingList[itr].gCull = s.now,
                             !.mHandle[i] = NULL_AUDIOHANDLE]
     ELSE [s EXCEPT !.mHandle[i] = NULL_AUDIOHANDLE]

RECURSIVE closeFrom(_, _)
closeFrom(s, i) ==
  IF i >= mNumSources THEN s ELSE closeFrom(closeHandle(s, i), i + 1)

alxCloseHandles(s) == closeFrom(s, 0)

\* alxUpdateScores(false) unless alxCloseHandles stopped the program
updateScored(s1) == IF s1.fatal # NoFatal THEN s1 ELSE alxUpdateScores(s1, FALSE)

alxUpdate(s, rank) ==
  alxStreamingUpdate(alxLoopingUpdate(updateScored(alxCloseHandles(s)), rank), rank)

\* ----------------------------------------------------------------- create
\* mIsLooping of a streaming description is read by no line modelled here
Descriptions ==
  {d \in [mVolume : Volumes, mIsLooping : BOOLEAN, mIsStreaming : BOOLEAN, mType : AudioTypes] :
     ~(d.mIsLooping /\ d.mIsStreaming)}

\* desc == NULL
NullDescription == [null |-> TRUE]
IsNullDescription(desc) == "null" \in DOMAIN desc

\* a NULL or empty filename, a name with no resource behind it, a good name
FileNames == {"", "missing.wav", "sound.wav"}

\* AudioBuffer::find(filename) and AudioStreamSourceFactory::getNewInstance(filename)
ResourceFound(filename) == filename = "sound.wav"

\* a voice is wanted only for a far louder request
needsVoiceLoud(volume) == volume > 5 * MIN_GAIN

\* if(volume > MIN_GAIN): the request is loud enough to be given a voice
needsVoice(volume) == volume > MIN_GAIN

\* if(!cullSource(&index, volume)) index = MAX_AUDIOSOURCES
createCulled(r) == [s |-> r.s, index |-> IF r.ok THEN r.index ELSE MAX_AUDIOSOURCES]

\* a slot search that culls on the scores as they were last stored
createFindSlotStale(s, volume) ==
  IF ~needsVoice(volume) THEN [s |-> s, index |-> MAX_AUDIOSOURCES]
  ELSE IF findFreeSource(s) # MAX_AUDIOSOURCES THEN [s |-> s, index |-> findFreeSource(s)]
  ELSE createCulled(cullSourceLogged(s, volume))

\* the slot search of alxCreateSource: [s, index]
createFindSlot(s, volume) ==
  IF ~needsVoice(volume) THEN [s |-> s, index |-> MAX_AUDIOSOURCES]
  ELSE IF findFreeSource(s) # MAX_AUDIOSOURCES THEN [s |-> s, index |-> findFreeSource(s)]
  ELSE createCulled(cullSourceLogged(alxUpdateScores(s, TRUE), volume))

\* desc->mMaxDistance of every description, in hundredths of a unit
DescMaxDistance == 10000

\* createLoopingImage() filled in by alxCreateSource
NewLoopingImage(h, desc, volume) ==
  [mHandle |-> h, mVolume |-> desc.mVolume, mType |-> desc.mType, mScore |-> volume,
   mCullTime |-> 0, mBuffer |-> TRUE, mPitch |-> DefaultPitch, gCull |-> -1, gGain |-> -1,
   gPitch |-> -1, gPlayed |-> FALSE, mMaxDistance |-> DescMaxDistance]

\* createStreamingSource(filename) filled in by alxCreateSource
NewStreamingSource(h, desc, volume, index) ==
  [mHandle |-> h, mVolume |-> desc.mVolume, mType |-> desc.mType, mScore |-> volume,
   mCullTime |-> 0, mSource |-> index, stream |-> TRUE, mPitch |-> DefaultPitch, gCull |-> -1,
   gVoice |-> index, mMaxDistance |-> DescMaxDistance]

\* a creation that gives up whenever no slot was obtained
createNoSlotRefuses(s, desc, filename) == [s |-> s, ret |-> NULL_AUDIOHANDLE]

\* alxCreateSource when no slot was obtained: only a looper is registered
createNoSlot(s, desc, filename) ==
  IF desc.mIsLooping /\ ~desc.mIsStreaming
  THEN IF ~ResourceFound(filename) THEN [s |-> s, ret |-> NULL_AUDIOHANDLE]
       ELSE LET n == getNewHandle(s.mLastHandle)
                h == SetInactive(SetLooping(Handle(n)))
                volume == Mul(desc.mVolume, s.mAudioTypeVolume[desc.mType])
                s1 == [s EXCEPT !.mLastHandle = n]
                a1 == AssertFatal(s1, LoopingFindImage(s1, s1.mLoopingInactiveList, h) = 0,
                                  "alxCreateSource: handle in inactive list")
                a2 == AssertFatal(a1, LoopingFindImage(s1, s1.mLoopingCulledList, h) = 0,
                                  "alxCreateSource: handle in culled list")
            IN IF a2.fatal # NoFatal THEN [s |-> a2, ret |-> NULL_AUDIOHANDLE]
               ELSE [s |-> [a2 EXCEPT !.mLoopingList = Put(@, n, NewLoopingImage(h, desc, volume)),
                                      !.mLoopingInactiveList = @ \cup {n}],
                     ret |-> RETURN_MASK(h)]
  ELSE [s |-> s, ret |-> NULL_AUDIOHANDLE]

\* alxCreateSource with slot index in hand
createInSlot(s, desc, filename, index) ==
  IF ~desc.mIsStreaming /\ ~ResourceFound(filename) THEN [s |-> s, ret |-> NULL_AUDIOHANDLE]
  ELSE LET n == getNewHandle(s.mLastHandle)
           volume == Mul(desc.mVolume, s.mAudioTypeVolume[desc.mType])
           h0 == SetInactive(Handle(n))
           h == IF desc.mIsStreaming THEN SetLoading(SetStreaming(h0))
                ELSE IF desc.mIsLooping THEN SetLooping(h0) ELSE h0
           s1 == [s EXCEPT !.mLastHandle = n,
                           !.mHandle[index] = h,
                           !.mType[index] = desc.mType,
                           !.mScore[index] = volume,
                           !.mSourceVolume[index] = desc.mVolume,
                           !.alPitch[index] = IF ~desc.mIsStreaming \/ ResourceFound(filename)
                                              THEN DefaultPitch ELSE @]
       IN IF desc.mIsStreaming
          THEN IF ~ResourceFound(filename)
               THEN [s |-> [s1 EXCEPT !.mHandle[index] = NULL_AUDIOHANDLE],
                     ret |-> NULL_AUDIOHANDLE]
               ELSE LET a1 == AssertFatal(s1, StreamingFindImage(s1, s1.mStreamingInactiveList, h) = 0,
                                          "alxCreateSource: handle in inactive list")
                        a2 == AssertFatal(a1, StreamingFindImage(s1, s1.mStreamingCulledList, h) = 0,
                                          "alxCreateSource: handle in culled list")
                    IN IF a2.fatal # NoFatal THEN [s |-> a2, ret |-> NULL_AUDIOHANDLE]
                       ELSE [s |-> [a2 EXCEPT !.mStreamingList =
                                       Put(@, n, NewStreamingSource(h, desc, volume, index))],
                             ret |-> RETURN_MASK(h)]
          ELSE IF desc.mIsLooping
          THEN LET a1 == AssertFatal(s1, LoopingFindImage(s1, s1.mLoopingInactiveList, h) = 0,
                                     "alxCreateSource: handle in inactive list")
                   a2 == AssertFatal(a1, LoopingFindImage(s1, s1.mLoopingCulledList, h) = 0,
                                     "alxCreateSource: handle in culled list")
               IN IF a2.fatal # NoFatal THEN [s |-> a2, ret |-> NULL_AUDIOHANDLE]
                  ELSE [s |-> [a2 EXCEPT !.mLoopingList =
                                  Put(@, n, NewLoopingImage(h, desc, volume))],
                        ret |-> RETURN_MASK(h)]
          ELSE [s |-> s1, ret |-> RETURN_MASK(h)]

\* alxCreateSource after its slot search answered f
createWithSlot(f, desc, filename) ==
  IF f.s.fatal # NoFatal THEN [s |-> f.s, ret |-> NULL_AUDIOHANDLE]
  ELSE IF f.index = MAX_AUDIOSOURCES THEN createNoSlot(f.s, desc, filename)
  ELSE createInSlot(f.s, desc, filename, f.index)

\* alxCreateSource(desc, filename, transform = NULL, sampleEnvironment): [s, ret]
alxCreateSource(s, desc, filename) ==
  LET oneShot == ~desc.mIsLooping /\ ~desc.mIsStreaming
      volume == Mul(desc.mVolume, s.mAudioTypeVolume[desc.mType])
  IN IF IsNullDescription(desc) \/ filename = "" THEN [s |-> s, ret |-> NULL_AUDIOHANDLE]
     ELSE IF desc.mType \notin AudioTypes
     THEN [s |-> AssertFatal(s, FALSE, "alxCreateSource: invalid type for source"),
           ret |-> NULL_AUDIOHANDLE]
     ELSE IF oneShot /\ s.mAudioTypeVolume[desc.mType] = 0
     THEN [s |-> s, ret |-> NULL_AUDIOHANDLE]
     ELSE IF oneShot /\ volume <= MIN_GAIN THEN [s |-> s, ret |-> NULL_AUDIOHANDLE]
     ELSE createWithSlot(createFindSlot(s, volume), desc, filename)

\* ------------------------------------------------------------- parameters
\* the two ALenum names followed here
ParamNames == {"AL_GAIN_LINEAR", "AL_PITCH"}

\* the value alxGetSourcef leaves in *value when it writes nothing
Unwritten == -1

\* the pitch to remember as set without a voice: value if no slot holds the
\* handle, none otherwise
VoicelessPitch(s, handle, value) ==
  IF alxFindIndex(s, handle) = MAX_AUDIOSOURCES THEN value ELSE -1

\* a cache that drops the gain
alxLoopSourcefPitchOnly(s, handle, pname, value) ==
  LET itr == LoopingFindImage(s, DOMAIN s.mLoopingList, handle)
  IN IF itr = 0 THEN s
     ELSE IF pname = "AL_GAIN_LINEAR" THEN [s EXCEPT !.mLoopingList[itr].gGain = value]
     ELSE [s EXCEPT !.mLoopingList[itr].mPitch = value,
                    !.mLoopingList[itr].gPitch = VoicelessPitch(s, handle, value)]

\* alxLoopSourcef(handle, pname, value); gGain remembers the gain last set and
\* gPitch the pitch last set, if it was set while the source had no voice
alxLoopSourcef(s, handle, pname, value) ==
  LET itr == LoopingFindImage(s, DOMAIN s.mLoopingList, handle)
  IN IF itr = 0 THEN s
     ELSE IF pname = "AL_GAIN_LINEAR"
     THEN [s EXCEPT !.mLoopingList[itr].mVolume = value,
                    !.mLoopingList[itr].gGain = value]
     ELSE IF pname = "AL_CONE_OUTER_GAIN"
     THEN [s EXCEPT !.mLoopingList[itr].mMaxDistance = value]
     ELSE [s EXCEPT !.mLoopingList[itr].mPitch = value,
                    !.mLoopingList[itr].gPitch = VoicelessPitch(s, handle, value)]

\* alxStreamSourcef(handle, pname, value)
alxStreamSourcef(s, handle, pname, value) ==
  LET itr == StreamingFindImage(s, DOMAIN s.mStreamingList, handle)
  IN IF itr = 0 THEN s
     ELSE IF pname = "AL_GAIN_LINEAR" THEN [s EXCEPT !.mStreamingList[itr].mVolume = value]
     ELSE IF pname = "AL_CONE_OUTER_GAIN"
     THEN [s EXCEPT !.mStreamingList[itr].mMaxDistance = value]
     ELSE [s EXCEPT !.mStreamingList[itr].mPitch = value]

\* the part of alxSourcef that writes to the voice in slot idx
sourcefVoice(s, idx, pname, value) ==
  IF idx = MAX_AUDIOSOURCES THEN s
  ELSE IF pname = "AL_GAIN_LINEAR" THEN [s EXCEPT !.mSourceVolume[idx] = value]
  ELSE IF pname = "AL_CONE_OUTER_GAIN" THEN s
  ELSE [s EXCEPT !.alPitch[idx] = value]

\* alxSourcef(handle, pname, value)
alxSourcef(s, handle, pname, value) ==
  alxStreamSourcef(
    alxLoopSourcef(sourcefVoice(s, alxFindIndex(s, handle), pname, value),
                   handle, pname, value),
    handle, pname, value)

\* alxLoopGetSourcef(handle, pname, &value)
alxLoopGetSourcef(s, handle, pname) ==
  LET itr == LoopingFindImage(s, DOMAIN s.mLoopingList, handle)
  IN IF itr = 0 THEN Unwritten
     ELSE IF pname = "AL_GAIN_LINEAR" THEN s.mLoopingList[itr].mVolume
     ELSE s.mLoopingList[itr].mPitch

\* alxStreamGetSourcef(handle, pname, &value)
alxStreamGetSourcef(s, handle, pname) ==
  LET itr == StreamingFindImage(s, DOMAIN s.mStreamingList, handle)
  IN IF itr = 0 THEN Unwritten
     ELSE IF pname = "AL_GAIN_LINEAR" THEN s.mStreamingList[itr].mVolume
     ELSE s.mStreamingList[itr].mPitch

\* alxGetSourcef(handle, pname, &value): the value written
alxGetSourcef(s, handle, pname) ==
  IF alxFindIndex(s, handle) # MAX_AUDIOSOURCES
  THEN IF pname = "AL_GAIN_LINEAR" THEN s.mSourceVolume[alxFindIndex(s, handle)]
       ELSE s.alPitch[alxFindIndex(s, handle)]
  ELSE IF handle.looping THEN alxLoopGetSourcef(s, handle, pname)
  ELSE alxStreamGetSourcef(s, handle, pname)

\* ------------------------------------------------------------ gain tables
\* Audio::logtab in thousandths
logtab == <<
    0, 1, 2, 3, 4, 5, 10, 11,
    12, 13, 14, 15, 16, 20, 21, 22,
    23, 24, 25, 30, 31, 32, 33, 34,
    40, 41, 42, 43, 44, 50, 51, 52,
    53, 54, 60, 61, 62, 63, 64, 70,
    71, 72, 73, 80, 81, 82, 83, 84,
    90, 91, 92, 93, 94, 100, 101, 102,
    103, 110, 111, 112, 113, 120, 121, 122,
    123, 124, 130, 131, 132, 140, 141, 142,
    143, 150, 151, 152, 160, 161, 162, 170,
    171, 172, 180, 181, 190, 191, 192, 200,
    201, 210, 211, 220, 221, 230, 231, 240,
    250, 251, 260, 270, 271, 280, 290, 300,
    301, 310, 320, 330, 340, 350, 360, 370,
    380, 390, 400, 410, 430, 500, 600, 650,
    700, 750, 800, 850, 900, 950, 970, 990 >>

logmax == Len(logtab)

\* 1.f as a dB value in thousandths, and as a linear gain in steps of
\* 1 / (logmax * GainSub)
DbOne == 1000
LinearOne == logmax * GainSub

\* a search that moves min past the entry it found too small
RECURSIVE dbSearchSkips(_, _, _, _)
dbSearchSkips(value, min, max, mid) ==
  IF logtab[mid + 1] = value THEN mid
  ELSE LET min2 == IF logtab[mid + 1] < value THEN mid + 1 ELSE min
           max2 == IF logtab[mid + 1] < value THEN max ELSE mid
           mid2 == IF min2 >= logmax THEN logmax - 1 ELSE min2 + ((max2 - min2) \div 2)
       IN IF mid2 = mid THEN mid ELSE dbSearchSkips(value, min2, max2, mid2)

\* the do-while of Audio::DBToLinear from its second test of mid on
RECURSIVE dbSearch(_, _, _, _)
dbSearch(value, min, max, mid) ==
  IF logtab[mid + 1] = value THEN mid
  ELSE LET min2 == IF logtab[mid + 1] < value THEN mid ELSE min
           max2 == IF logtab[mid + 1] < value THEN max ELSE mid
           mid2 == min2 + ((max2 - min2) \div 2)
       IN IF mid2 = mid THEN mid ELSE dbSearch(value, min2, max2, mid2)

\* Audio::DBToLinear(value): (F32)mid / logmax
DBToLinear(value) ==
  IF value <= 0 THEN 0
  ELSE IF value >= DbOne THEN LinearOne
  ELSE (dbSearch(value, 0, logmax, (logmax - 0) \div 2) * LinearOne) \div logmax

\* a table lookup one entry further up
linearToDBNextEntry(value) ==
  IF value <= 0 THEN 0
  ELSE IF value >= LinearOne THEN DbOne
  ELSE logtab[IF (logmax * value) \div LinearOne + 2 > logmax THEN logmax
              ELSE (logmax * value) \div LinearOne + 2]

\* Audio::linearToDB(value): logtab[(U32)(logmax * value)]
linearToDB(value) ==
  IF value <= 0 THEN 0
  ELSE IF value >= LinearOne THEN DbOne
  ELSE logtab[((logmax * value) \div LinearOne) + 1]

\* ---------------------------------------------------------------- actions
\* no order of the culled lists is being held fixed
NoOrder == << >>

\* no gain conversion is under way
NoGain == [step |-> "idle", x |-> 0, db |-> 0, lin |-> 0]

\* the ways dQsort may leave elements that compare equal: a rank per image
Perms(S) ==
  {r \in [S -> 1 .. Cardinality(S)] : \A a, b \in S : a # b => r[a] # r[b]}

RanksOf(s) ==
  {[n \in DOMAIN s.mLoopingList \cup DOMAIN s.mStreamingList |->
      IF n \in DOMAIN s.mLoopingList THEN rl[n] ELSE rt[n]] :
     rl \in Perms(DOMAIN s.mLoopingList), rt \in Perms(DOMAIN s.mStreamingList)}

Ranks == RanksOf(St)

NoDesc == [mVolume |-> 0, mIsLooping |-> FALSE, mIsStreaming |-> FALSE, mType |-> 0]

\* the handles a caller can pass: null, the value alxCreateSource returned for
\* each source the program still knows, and for every other sequence number up
\* to the next one to be minted a plain, a looping and a streaming handle
KnownHandles ==
  {RETURN_MASK(mHandle[i]) : i \in {j \in Slots : mHandle[j] # NULL_AUDIOHANDLE}}
    \cup {RETURN_MASK(mLoopingList[id].mHandle) : id \in DOMAIN mLoopingList}
    \cup {RETURN_MASK(mStreamingList[id].mHandle) : id \in DOMAIN mStreamingList}

UserHandles ==
  {NULL_AUDIOHANDLE} \cup KnownHandles
    \cup UNION {{Handle(n), SetLooping(Handle(n)), SetStreaming(Handle(n))} :
                  n \in {m \in 1 .. (mLastHandle + 1) :
                           \A k \in KnownHandles : k.seq # m}}

\* whether handle names a source held in a slot or waiting in an inactive or
\* culled list
IsLive(s, handle) ==
  \/ \E i \in Slots : /\ s.mHandle[i] # NULL_AUDIOHANDLE
                      /\ areEqualHandles(s.mHandle[i], handle)
  \/ LoopingFindImage(s, s.mLoopingInactiveList \cup s.mLoopingCulledList, handle) # 0
  \/ StreamingFindImage(s, s.mStreamingInactiveList \cup s.mStreamingCulledList, handle) # 0

\* what a caller's handle is to the program: null, one it still knows, one
\* whose number was minted and is gone from every slot and list, or one whose
\* number is yet to be minted
HandleKind(handle) ==
  IF handle = NULL_AUDIOHANDLE THEN "null"
  ELSE IF handle \in KnownHandles THEN "known"
  ELSE IF handle.seq > mLastHandle THEN "unissued"
  ELSE "stale"

\* the record of the last call, for the claims: the call, for alxStop the
\* kind of handle passed, whether a non-null handle came back, and for
\* alxCreateSource the description and whether a slot was free before the call.
\* An alxPlay of the handle that the call just before it created carries that
\* creation's description and free slot on.
Did(op, arg, ret, desc, hadFree) ==
  [op |-> op, arg |-> arg, ok |-> ret # NULL_AUDIOHANDLE, desc |-> desc,
   hadFree |-> hadFree]

PlaysTheCreated(handle) ==
  /\ last.op = "create"
  /\ last.ok
  /\ handle # NULL_AUDIOHANDLE
  /\ handle.seq = mLastHandle

SetState(s) ==
  /\ mHandle' = s.mHandle
  /\ mScore' = s.mScore
  /\ mSourceVolume' = s.mSourceVolume
  /\ mType' = s.mType
  /\ alPlaying' = s.alPlaying
  /\ alPitch' = s.alPitch
  /\ mLoopingList' = s.mLoopingList
  /\ mLoopingInactiveList' = s.mLoopingInactiveList
  /\ mLoopingCulledList' = s.mLoopingCulledList
  /\ mStreamingList' = s.mStreamingList
  /\ mStreamingInactiveList' = s.mStreamingInactiveList
  /\ mStreamingCulledList' = s.mStreamingCulledList
  /\ mLastHandle' = s.mLastHandle
  /\ mAudioTypeVolume' = s.mAudioTypeVolume
  /\ now' = s.now
  /\ fatal' = s.fatal
  /\ cullLog' = s.cullLog
  /\ promoLog' = s.promoLog
  /\ gain' = gain
  /\ tieOrder' = tieOrder

Init ==
  /\ mHandle = [i \in Slots |-> NULL_AUDIOHANDLE]
  /\ mScore = [i \in Slots |-> 0]
  /\ mSourceVolume = [i \in Slots |-> 0]
  /\ mType = [i \in Slots |-> 0]
  /\ alPlaying = [i \in Slots |-> FALSE]
  /\ alPitch = [i \in Slots |-> DefaultPitch]
  /\ mLoopingList = << >>
  /\ mLoopingInactiveList = {}
  /\ mLoopingCulledList = {}
  /\ mStreamingList = << >>
  /\ mStreamingInactiveList = {}
  /\ mStreamingCulledList = {}
  /\ mLastHandle = 0
  /\ mAudioTypeVolume = [t \in AudioTypes |-> 100]
  /\ now = 0
  /\ fatal = NoFatal
  /\ last = Did("init", "none", NULL_AUDIOHANDLE, NoDesc, FALSE)
  /\ cullLog = {}
  /\ promoLog = {}
  /\ gain = NoGain
  /\ tieOrder = NoOrder

Created(r, desc) ==
  /\ SetState(r.s)
  /\ last' = Did("create", "none", r.ret, desc, findFreeSource(St) # MAX_AUDIOSOURCES)

\* alxCreateSource with a description of descs and a file name of names, while
\* fewer than most handles have been minted
CreateUpTo(descs, names, most) ==
  /\ fatal = NoFatal
  /\ mLastHandle < most
  /\ \E desc \in descs, filename \in names :
       Created(alxCreateSource(St, desc, filename), desc)

CreateFrom(descs) == CreateUpTo(descs, FileNames, MaxCreates)

Played(r, handle) ==
  /\ SetState(r.s)
  /\ last' = Did("play", "none", r.ret,
                 IF PlaysTheCreated(handle) THEN last.desc ELSE NoDesc,
                 PlaysTheCreated(handle) /\ last.hadFree)

Play ==
  /\ fatal = NoFatal
  /\ \E handle \in UserHandles, rank \in Ranks :
       Played(alxPlay(St, handle, rank), handle)

Stop ==
  /\ fatal = NoFatal
  /\ \E handle \in UserHandles :
       /\ SetState(alxStop(St, handle))
       /\ last' = Did("stop", HandleKind(handle), NULL_AUDIOHANDLE, NoDesc, FALSE)

StopAll ==
  /\ fatal = NoFatal
  /\ SetState(alxStopAll(St))
  /\ last' = Did("stopAll", "none", NULL_AUDIOHANDLE, NoDesc, FALSE)

Update ==
  /\ fatal = NoFatal
  /\ \E rank \in Ranks :
       /\ SetState(alxUpdate(St, rank))
       /\ last' = Did("update", "none", NULL_AUDIOHANDLE, NoDesc, FALSE)

\* the device: a voice that was playing is found not playing any more
VoiceEnds ==
  /\ fatal = NoFatal
  /\ \E i \in Slots :
       /\ alPlaying[i]
       /\ SetState([St EXCEPT !.alPlaying[i] = FALSE])
       /\ last' = Did("end", "none", NULL_AUDIOHANDLE, NoDesc, FALSE)

\* Platform::getRealMilliseconds() moves on
ClockAdvance ==
  /\ fatal = NoFatal
  /\ \E dt \in ClockSteps :
       /\ now + dt <= MaxClock
       /\ SetState([St EXCEPT !.now = now + dt])
       /\ last' = Did("clock", "none", NULL_AUDIOHANDLE, NoDesc, FALSE)

\* the channel volume table mAudioTypeVolume is written from outside this file
SetChannelVolume ==
  /\ fatal = NoFatal
  /\ \E type \in AudioTypes, volume \in TypeVolumes :
       /\ SetState([St EXCEPT !.mAudioTypeVolume[type] = volume])
       /\ last' = Did("volume", "none", NULL_AUDIOHANDLE, NoDesc, FALSE)

Create == CreateFrom(Descriptions)

\* one-shot, looping and streaming sources; every channel volume stays 1.0
Next ==
  \/ Create
  \/ Play
  \/ Stop
  \/ StopAll
  \/ Update
  \/ VoiceEnds
  \/ ClockAdvance

Spec == Init /\ [][Next]_vars

CreateOneShot == CreateFrom({d \in Descriptions : ~d.mIsLooping /\ ~d.mIsStreaming})

\* one-shot sources only, with the channel volume changing
NextVol ==
  \/ CreateOneShot
  \/ Play
  \/ Stop
  \/ StopAll
  \/ Update
  \/ VoiceEnds
  \/ ClockAdvance
  \/ SetChannelVolume

SpecVol == Init /\ [][NextVol]_vars

\* the values mLastHandle has after few and after nearly 2^28 creations
HandleStarts ==
  (0 .. HandleWindow) \cup ((HandleSeqMax - HandleWindow) .. HandleSeqMax)

InitHandle ==
  /\ mHandle = [i \in Slots |-> NULL_AUDIOHANDLE]
  /\ mScore = [i \in Slots |-> 0]
  /\ mSourceVolume = [i \in Slots |-> 0]
  /\ mType = [i \in Slots |-> 0]
  /\ alPlaying = [i \in Slots |-> FALSE]
  /\ alPitch = [i \in Slots |-> DefaultPitch]
  /\ mLoopingList = << >>
  /\ mLoopingInactiveList = {}
  /\ mLoopingCulledList = {}
  /\ mStreamingList = << >>
  /\ mStreamingInactiveList = {}
  /\ mStreamingCulledList = {}
  /\ mLastHandle \in HandleStarts
  /\ mAudioTypeVolume = [t \in AudioTypes |-> 100]
  /\ now = 0
  /\ fatal = NoFatal
  /\ last = Did("init", "none", NULL_AUDIOHANDLE, NoDesc, FALSE)
  /\ cullLog = {}
  /\ promoLog = {}
  /\ gain = NoGain
  /\ tieOrder = NoOrder

\* one call of getNewHandle
NewHandle ==
  /\ mLastHandle # HandleWindow
  /\ SetState([St EXCEPT !.mLastHandle = getNewHandle(mLastHandle)])
  /\ last' = Did("mint", IF mLastHandle = HandleSeqMax THEN "wrapped" ELSE "next",
                 Handle(getNewHandle(mLastHandle)), NoDesc, FALSE)

NextHandle == NewHandle

\* the handle counter alone, near zero and near its largest value
SpecHandle == InitHandle /\ [][NextHandle]_vars

audioVars ==
  <<mHandle, mScore, mSourceVolume, mType, alPlaying, alPitch,
    mLoopingList, mLoopingInactiveList, mLoopingCulledList,
    mStreamingList, mStreamingInactiveList, mStreamingCulledList,
    mLastHandle, mAudioTypeVolume, now, fatal, last, cullLog, promoLog, tieOrder>>

\* linear gains from just below 0 to just above 1
GainInputs == (0 - GainSub) .. (LinearOne + GainSub)

InitGain ==
  /\ mHandle = [i \in Slots |-> NULL_AUDIOHANDLE]
  /\ mScore = [i \in Slots |-> 0]
  /\ mSourceVolume = [i \in Slots |-> 0]
  /\ mType = [i \in Slots |-> 0]
  /\ alPlaying = [i \in Slots |-> FALSE]
  /\ alPitch = [i \in Slots |-> DefaultPitch]
  /\ mLoopingList = << >>
  /\ mLoopingInactiveList = {}
  /\ mLoopingCulledList = {}
  /\ mStreamingList = << >>
  /\ mStreamingInactiveList = {}
  /\ mStreamingCulledList = {}
  /\ mLastHandle = 0
  /\ mAudioTypeVolume = [t \in AudioTypes |-> 100]
  /\ now = 0
  /\ fatal = NoFatal
  /\ last = Did("init", "none", NULL_AUDIOHANDLE, NoDesc, FALSE)
  /\ cullLog = {}
  /\ promoLog = {}
  /\ \E x \in GainInputs : gain = [step |-> "in", x |-> x, db |-> 0, lin |-> 0]
  /\ tieOrder = NoOrder

\* db = Audio::linearToDB(x)
ConvertToDB ==
  /\ gain.step = "in"
  /\ gain' = [gain EXCEPT !.step = "db", !.db = linearToDB(gain.x)]
  /\ UNCHANGED audioVars

\* lin = Audio::DBToLinear(db)
ConvertToLinear ==
  /\ gain.step = "db"
  /\ gain' = [gain EXCEPT !.step = "lin", !.lin = DBToLinear(gain.db)]
  /\ UNCHANGED audioVars

NextGain ==
  \/ ConvertToDB
  \/ ConvertToLinear

\* the two gain conversions alone, applied one after the other
SpecGain == InitGain /\ [][NextGain]_vars

\* dB values in thousandths, from below 0 to above 1.f
DbInputs == (0 - GainSub) .. (DbOne + GainSub)

InitDb ==
  /\ mHandle = [i \in Slots |-> NULL_AUDIOHANDLE]
  /\ mScore = [i \in Slots |-> 0]
  /\ mSourceVolume = [i \in Slots |-> 0]
  /\ mType = [i \in Slots |-> 0]
  /\ alPlaying = [i \in Slots |-> FALSE]
  /\ alPitch = [i \in Slots |-> DefaultPitch]
  /\ mLoopingList = << >>
  /\ mLoopingInactiveList = {}
  /\ mLoopingCulledList = {}
  /\ mStreamingList = << >>
  /\ mStreamingInactiveList = {}
  /\ mStreamingCulledList = {}
  /\ mLastHandle = 0
  /\ mAudioTypeVolume = [t \in AudioTypes |-> 100]
  /\ now = 0
  /\ fatal = NoFatal
  /\ last = Did("init", "none", NULL_AUDIOHANDLE, NoDesc, FALSE)
  /\ cullLog = {}
  /\ promoLog = {}
  /\ \E y \in DbInputs : gain = [step |-> "dbin", x |-> 0, db |-> y, lin |-> 0]
  /\ tieOrder = NoOrder

\* lin = Audio::DBToLinear(db) for a dB value that comes from the caller
ConvertDb ==
  /\ gain.step = "dbin"
  /\ gain' = [gain EXCEPT !.step = "dblin", !.lin = DBToLinear(gain.db)]
  /\ UNCHANGED audioVars

NextDb == ConvertDb

\* Audio::DBToLinear alone, applied to every dB value
SpecDb == InitDb /\ [][NextDb]_vars

\* descriptions that are all loud enough to ask for a voice: one-shots of
\* three volumes, and quiet looping and streaming sources for them to evict
LoudVolumes == {20, 90, 95}
LoudDescriptions ==
  {d \in [mVolume : LoudVolumes, mIsLooping : BOOLEAN, mIsStreaming : BOOLEAN,
          mType : AudioTypes] :
     /\ ~(d.mIsLooping /\ d.mIsStreaming)
     /\ (d.mIsLooping \/ d.mIsStreaming) => d.mVolume = 20}

CreateLoud == CreateFrom(LoudDescriptions)

\* sources that all compete for the voices; every channel volume stays 1.0
NextLoud ==
  \/ CreateLoud
  \/ Play
  \/ Stop
  \/ StopAll
  \/ Update
  \/ VoiceEnds
  \/ ClockAdvance

SpecLoud == Init /\ [][NextLoud]_vars

\* a loud streaming source, and one-shots to evict it and to be evicted by it
StreamDescriptions ==
  {[mVolume |-> 90, mIsLooping |-> FALSE, mIsStreaming |-> TRUE, mType |-> 0]}
    \cup {[mVolume |-> v, mIsLooping |-> FALSE, mIsStreaming |-> FALSE, mType |-> 0] :
             v \in LoudVolumes}

CreateStream == CreateUpTo(StreamDescriptions, {"sound.wav"}, MaxStreamCreates)

\* a streaming source among one-shots; every channel volume stays 1.0
NextStream ==
  \/ CreateStream
  \/ Play
  \/ Stop
  \/ Update
  \/ VoiceEnds
  \/ ClockAdvance

SpecStream == Init /\ [][NextStream]_vars

\* the culled list holds the images in the order they were created, or in the
\* reverse order: one rank per image
TieOrders ==
  {[n \in 1 .. MaxStreamCreates |-> n],
   [n \in 1 .. MaxStreamCreates |-> MaxStreamCreates + 1 - n]}

InitTick ==
  /\ mHandle = [i \in Slots |-> NULL_AUDIOHANDLE]
  /\ mScore = [i \in Slots |-> 0]
  /\ mSourceVolume = [i \in Slots |-> 0]
  /\ mType = [i \in Slots |-> 0]
  /\ alPlaying = [i \in Slots |-> FALSE]
  /\ alPitch = [i \in Slots |-> DefaultPitch]
  /\ mLoopingList = << >>
  /\ mLoopingInactiveList = {}
  /\ mLoopingCulledList = {}
  /\ mStreamingList = << >>
  /\ mStreamingInactiveList = {}
  /\ mStreamingCulledList = {}
  /\ mLastHandle = 0
  /\ mAudioTypeVolume = [t \in AudioTypes |-> 100]
  /\ now = 0
  /\ fatal = NoFatal
  /\ last = Did("init", "none", NULL_AUDIOHANDLE, NoDesc, FALSE)
  /\ cullLog = {}
  /\ promoLog = {}
  /\ gain = NoGain
  /\ tieOrder \in TieOrders

\* looping sources of two volumes
TickDescriptions ==
  {[mVolume |-> v, mIsLooping |-> TRUE, mIsStreaming |-> FALSE, mType |-> 0] : v \in {20, 90}}

\* the game sets its sounds up before the clock has moved
CreateTick ==
  /\ now = 0
  /\ CreateUpTo(TickDescriptions, {"sound.wav"}, MaxStreamCreates)

PlayTick ==
  /\ now = 0
  /\ fatal = NoFatal
  /\ \E handle \in KnownHandles : Played(alxPlay(St, handle, tieOrder), handle)

EndTick ==
  /\ now = 0
  /\ VoiceEnds

\* alxUpdate() with the culled list keeping its order from tick to tick
Tick ==
  /\ fatal = NoFatal
  /\ SetState(alxUpdate(St, tieOrder))
  /\ last' = Did("update", "none", NULL_AUDIOHANDLE, NoDesc, FALSE)

\* the variables already have the values SetState(s) would give them
AtState(s) ==
  /\ mHandle = s.mHandle
  /\ mScore = s.mScore
  /\ mSourceVolume = s.mSourceVolume
  /\ mType = s.mType
  /\ alPlaying = s.alPlaying
  /\ alPitch = s.alPitch
  /\ mLoopingList = s.mLoopingList
  /\ mLoopingInactiveList = s.mLoopingInactiveList
  /\ mLoopingCulledList = s.mLoopingCulledList
  /\ mStreamingList = s.mStreamingList
  /\ mStreamingInactiveList = s.mStreamingInactiveList
  /\ mStreamingCulledList = s.mStreamingCulledList
  /\ mLastHandle = s.mLastHandle
  /\ mAudioTypeVolume = s.mAudioTypeVolume
  /\ now = s.now
  /\ fatal = s.fatal
  /\ cullLog = s.cullLog
  /\ promoLog = s.promoLog

\* a tick cannot change anything: ~ENABLED <<Tick>>_vars, written out
TickQuiet ==
  \/ fatal # NoFatal
  \/ /\ AtState(alxUpdate(St, tieOrder))
     /\ last = Did("update", "none", NULL_AUDIOHANDLE, NoDesc, FALSE)

\* WF_vars(Tick), with TickQuiet for the ENABLED it contains
TickFairness == []<>TickQuiet \/ []<><<Tick>>_vars

NextTick ==
  \/ CreateTick
  \/ PlayTick
  \/ EndTick
  \/ Tick
  \/ ClockAdvance

\* sounds are set up, and from then on only the clock and alxUpdate run; the
\* main loop calls alxUpdate every frame and the clock never stops
SpecTick == InitTick /\ [][NextTick]_vars /\ TickFairness /\ WF_vars(ClockAdvance)

CreateLoop == CreateUpTo(TickDescriptions, {"sound.wav"}, MaxStreamCreates)

PlayLoop ==
  /\ fatal = NoFatal
  /\ \E handle \in KnownHandles : Played(alxPlay(St, handle, tieOrder), handle)

NextLoop ==
  \/ CreateLoop
  \/ PlayLoop
  \/ Tick
  \/ VoiceEnds
  \/ ClockAdvance

\* looping sources only, created and played at any time, more of them than
\* there are voices; the culled list keeps its order
SpecLoop == InitTick /\ [][NextLoop]_vars

\* a gain and a pitch that no description asks for
ParamValues == [AL_GAIN_LINEAR |-> {50}, AL_PITCH |-> {150}]

CreateParam == CreateUpTo(TickDescriptions, {"sound.wav"}, MaxCreates)

\* the game tunes the sound it created first
ParamHandles == {h \in KnownHandles : h.seq = 1}

SetParam ==
  /\ fatal = NoFatal
  /\ \E handle \in ParamHandles, pname \in ParamNames :
       \E value \in ParamValues[pname] :
         /\ SetState(alxSourcef(St, handle, pname, value))
         /\ last' = Did("sourcef", pname, handle, NoDesc, FALSE)

NextParam ==
  \/ CreateParam
  \/ PlayLoop
  \/ SetParam
  \/ Tick
  \/ VoiceEnds
  \/ ClockAdvance

\* looping sources whose gain and pitch are set while they play and while
\* they wait
SpecParam == InitTick /\ [][NextParam]_vars

\* cone outer gains, in hundredths
ConeGains == {50}

CreateCone ==
  CreateUpTo(TickDescriptions \cup
               {[mVolume |-> 90, mIsLooping |-> FALSE, mIsStreaming |-> TRUE, mType |-> 0]},
             {"sound.wav"}, MaxCreates)

SetCone ==
  /\ fatal = NoFatal
  /\ \E handle \in KnownHandles, value \in ConeGains :
       /\ SetState(alxSourcef(St, handle, "AL_CONE_OUTER_GAIN", value))
       /\ last' = Did("sourcef", "AL_CONE_OUTER_GAIN", handle, NoDesc, FALSE)

NextCone ==
  \/ CreateCone
  \/ PlayLoop
  \/ SetCone
  \/ Tick
  \/ VoiceEnds

\* looping and streaming sources whose cone outer gain is set while they play
\* and while they wait
SpecCone == InitTick /\ [][NextCone]_vars


\* ------------------------------------------------------------------ claims
\* a voice slot holds the handle of looping image id
LoopingActive(id) ==
  \E i \in Slots : /\ mHandle[i] # NULL_AUDIOHANDLE
                   /\ areEqualHandles(mHandle[i], mLoopingList[id].mHandle)

LoopingSetsOf(id) ==
  (IF LoopingActive(id) THEN {"active"} ELSE {})
    \cup (IF id \in mLoopingInactiveList THEN {"inactive"} ELSE {})
    \cup (IF id \in mLoopingCulledList THEN {"culled"} ELSE {})

\* C1: while no assertion has failed, every looping image of mLoopingList is
\* in exactly one of the active, inactive and culled sets
C1_ExactlyOneSet ==
  fatal = NoFatal =>
    \A id \in DOMAIN mLoopingList : Cardinality(LoopingSetsOf(id)) = 1

\* C2: every cullSource call that freed a slot found that slot's stored score
\* strictly below the requested volume, and every call made while all stored
\* scores were at or above the requested volume returned false and left the
\* slots and the lists as they were
C2_CullOnlyBelow ==
  \A e \in cullLog : /\ e.ok => e.score < e.volume
                     /\ e.allGE => ~e.ok /\ e.same

\* cullSource has freed a slot that held a scored voice
C2_Witness == \E e \in cullLog : e.ok /\ e.score > 0


\* what alxCreateSource(desc, filename) would evict or register: nothing
CreateLeavesPool(desc, filename) ==
  LET r == alxCreateSource(St, desc, filename)
  IN /\ r.ret = NULL_AUDIOHANDLE
     /\ r.s.fatal = NoFatal
     /\ Pool(r.s) = Pool(St)
     /\ r.s.alPlaying = alPlaying

\* no slot is free and every slot's score, computed afresh, is at or above volume
FullAndNoneBelow(volume) ==
  /\ findFreeSource(St) = MAX_AUDIOSOURCES
  /\ \A i \in Slots : SlotScore(St, i) >= volume

\* C3: with no slot free and every slot's freshly computed score at or above
\* the channel-scaled volume of a one-shot request, alxCreateSource returns
\* the null handle, frees no slot, stops no voice and registers no record
C3_FullPoolRefusesOneShot ==
  fatal = NoFatal =>
    \A desc \in Descriptions, filename \in FileNames :
      (/\ ~desc.mIsLooping /\ ~desc.mIsStreaming
       /\ FullAndNoneBelow(Mul(desc.mVolume, mAudioTypeVolume[desc.mType])))
        => CreateLeavesPool(desc, filename)

\* an audible one-shot request with a good file name was just refused by a full
\* pool of voices all scoring at least its volume, after the channel volume
\* had moved the scores away from the stored ones
C3_Witness ==
  /\ last.op = "create"
  /\ ~last.ok
  /\ ~last.hadFree
  /\ ~last.desc.mIsLooping /\ ~last.desc.mIsStreaming
  /\ Mul(last.desc.mVolume, mAudioTypeVolume[last.desc.mType]) > MIN_GAIN
  /\ FullAndNoneBelow(Mul(last.desc.mVolume, mAudioTypeVolume[last.desc.mType]))
  /\ mAudioTypeVolume[last.desc.mType] # 100
  /\ fatal = NoFatal

\* alxCreateSource(desc, filename) then alxPlay of the handle it returned
\* leaves alxIsPlaying true of that handle
CreateThenPlayPlays(desc, filename) ==
  LET c == alxCreateSource(St, desc, filename)
  IN (c.ret # NULL_AUDIOHANDLE /\ c.s.fatal = NoFatal)
       => \A rank \in RanksOf(c.s) :
            LET p == alxPlay(c.s, c.ret, rank)
            IN p.s.fatal = NoFatal /\ alxIsPlaying(p.s, c.ret)

\* C4 as stated: whenever a slot is free, every creation that returns a handle
\* and is followed by alxPlay of that handle leaves the handle playing
C4_CreateThenPlayIsPlaying ==
  (fatal = NoFatal /\ findFreeSource(St) # MAX_AUDIOSOURCES) =>
    \A desc \in Descriptions, filename \in FileNames :
      CreateThenPlayPlays(desc, filename)

\* C4 amended: whenever a slot is free, every creation whose channel-scaled
\* volume is above MIN_GAIN, that returns a handle and is followed at once by
\* alxPlay of that handle, leaves the handle playing
C4_AudibleCreateThenPlayIsPlaying ==
  (fatal = NoFatal /\ findFreeSource(St) # MAX_AUDIOSOURCES) =>
    \A desc \in Descriptions, filename \in FileNames :
      Mul(desc.mVolume, mAudioTypeVolume[desc.mType]) > MIN_GAIN
        => CreateThenPlayPlays(desc, filename)

\* a looping source created into a free slot was played by the next call and
\* is playing
C4_Witness ==
  /\ last.op = "play"
  /\ last.hadFree
  /\ last.desc.mIsLooping
  /\ \E i \in Slots : mHandle[i].seq = mLastHandle /\ alPlaying[i]
  /\ \E id \in DOMAIN mLoopingList : alxIsPlaying(St, RETURN_MASK(mLoopingList[id].mHandle))


\* handle is still in a slot or in one of the six lists of s
Holds(s, handle) ==
  \/ IsLive(s, handle)
  \/ LoopingFindImage(s, DOMAIN s.mLoopingList, handle) # 0
  \/ StreamingFindImage(s, DOMAIN s.mStreamingList, handle) # 0

\* C5 as stated: alxStop of any handle the program knows completes without a
\* failed assertion and leaves the handle in no slot and in no list
C5_StopCompletesAndRemoves ==
  fatal = NoFatal =>
    \A h \in KnownHandles :
      LET s1 == alxStop(St, h)
      IN s1.fatal = NoFatal /\ ~Holds(s1, h)

\* C6: alxStop of the null handle, of a handle not yet minted and of a handle
\* whose source is gone changes nothing, and a second alxStop of any handle
\* right after a first that completed changes nothing more
C6_StopOfDeadHandleIsNoOp ==
  fatal = NoFatal =>
    \A h \in UserHandles :
      LET s1 == alxStop(St, h)
      IN /\ HandleKind(h) # "known" => s1 = St
         /\ s1.fatal = NoFatal => alxStop(s1, h) = s1

\* alxStop was just called with a handle whose source was gone, while a voice
\* slot was in use
C6_Witness ==
  /\ last.op = "stop"
  /\ last.arg = "stale"
  /\ \E i \in Slots : mHandle[i] # NULL_AUDIOHANDLE
  /\ fatal = NoFatal

\* C7 as stated: no reactivation pass gives a voice to a source that was
\* culled less than MIN_UNCULL_PERIOD before
C7_NoPromotionBeforeDwell ==
  \A e \in promoLog :
    e.culledAt # -1 => now - e.culledAt >= MIN_UNCULL_PERIOD

\* C8 as stated: alxPlay returns the handle it was given when that handle
\* names a live source, and the null handle otherwise
C8_PlayReturnsHandleIffLive ==
  fatal = NoFatal =>
    \A h \in UserHandles, rank \in Ranks :
      alxPlay(St, h, rank).ret = IF IsLive(St, h) THEN h ELSE NULL_AUDIOHANDLE

\* C9 as stated: after alxStopAll every slot is free and all six lists are empty
C9_StopAllEmptiesEverything ==
  last.op = "stopAll" =>
    /\ fatal = NoFatal
    /\ \A i \in Slots : mHandle[i] = NULL_AUDIOHANDLE
    /\ DOMAIN mLoopingList = {} /\ mLoopingInactiveList = {} /\ mLoopingCulledList = {}
    /\ DOMAIN mStreamingList = {} /\ mStreamingInactiveList = {} /\ mStreamingCulledList = {}

\* C10: no two voice slots hold non-null handles that areEqualHandles calls equal
C10_NoHandleInTwoSlots ==
  \A i, j \in Slots :
    (i # j /\ mHandle[i] # NULL_AUDIOHANDLE /\ mHandle[j] # NULL_AUDIOHANDLE)
      => ~areEqualHandles(mHandle[i], mHandle[j])

\* a reactivation pass has just given a culled source a voice and every slot
\* is in use
C10_Witness ==
  /\ promoLog # {}
  /\ \A i \in Slots : mHandle[i] # NULL_AUDIOHANDLE


\* the slot cullSource is to free for a request of volume: the first slot of
\* least freshly computed score
LowestSlot ==
  CHOOSE i \in Slots :
    \A j \in Slots : \/ SlotScore(St, i) < SlotScore(St, j)
                     \/ SlotScore(St, i) = SlotScore(St, j) /\ i <= j

\* alxCreateSource(desc, filename) frees slot LowestSlot and puts the new
\* source there, leaving every other slot as it was
CreateTakesLowest(desc, filename) ==
  LET r == alxCreateSource(St, desc, filename)
  IN /\ r.s.fatal = NoFatal
     /\ r.ret # NULL_AUDIOHANDLE
     /\ r.ret.seq = r.s.mLastHandle /\ r.s.mLastHandle # mLastHandle
     /\ RETURN_MASK(r.s.mHandle[LowestSlot]) = r.ret
     /\ r.s.mSourceVolume[LowestSlot] = desc.mVolume
     /\ \A j \in Slots \ {LowestSlot} :
          r.s.mHandle[j] = mHandle[j] /\ r.s.mSourceVolume[j] = mSourceVolume[j]

\* C11: with no slot free, a one-shot request with a good file name whose
\* volume is above the freshly computed score of some slot is given the first
\* slot of least score, and the other slots keep their sources; so one-shots
\* of volume 0.9, 0.2 and 0.95 created in that order on two voices leave the
\* voices with the sources of volume 0.9 and 0.95
C11_OneShotTakesLowestSlot ==
  (fatal = NoFatal /\ findFreeSource(St) = MAX_AUDIOSOURCES) =>
    \A desc \in LoudDescriptions :
      (/\ ~desc.mIsLooping /\ ~desc.mIsStreaming
       /\ \E i \in Slots : SlotScore(St, i) < Mul(desc.mVolume, mAudioTypeVolume[desc.mType]))
        => CreateTakesLowest(desc, "sound.wav")

\* one-shots of volume 0.9, 0.2 and 0.95 were created in that order, the first
\* was played, and the third took the slot of the second
C11_Witness ==
  /\ last.op = "create" /\ last.ok /\ ~last.hadFree
  /\ last.desc = [mVolume |-> 95, mIsLooping |-> FALSE, mIsStreaming |-> FALSE, mType |-> 0]
  /\ mLastHandle = 3
  /\ mHandle[0] = Handle(1) /\ mSourceVolume[0] = 90 /\ alPlaying[0]
  /\ mHandle[1] = SetInactive(Handle(3)) /\ mSourceVolume[1] = 95
  /\ \E e \in cullLog : e.ok /\ e.score = 20
  /\ DOMAIN mLoopingList = {} /\ DOMAIN mStreamingList = {}
  /\ fatal = NoFatal


\* a request of volume is given no voice: it is too quiet to ask for one, or no
\* slot is free and no slot's freshly computed score is below volume
GetsNoVoice(volume) ==
  \/ volume <= MIN_GAIN
  \/ FullAndNoneBelow(volume)

\* r is the outcome of a creation that registered a looping image, waiting in
\* the inactive list only, and touched no slot, no voice and no other record
RegisteredInactiveLooper(r) ==
  LET n == r.s.mLastHandle
  IN /\ n # mLastHandle
     /\ r.ret = SetLooping(Handle(n))
     /\ r.s.mHandle = mHandle /\ r.s.alPlaying = alPlaying
     /\ DOMAIN r.s.mLoopingList = DOMAIN mLoopingList \cup {n}
     /\ \A id \in DOMAIN mLoopingList : r.s.mLoopingList[id] = mLoopingList[id]
     /\ r.s.mLoopingList[n].mHandle = SetInactive(SetLooping(Handle(n)))
     /\ r.s.mLoopingInactiveList = mLoopingInactiveList \cup {n}
     /\ r.s.mLoopingCulledList = mLoopingCulledList
     /\ r.s.mStreamingList = mStreamingList
     /\ r.s.mStreamingInactiveList = mStreamingInactiveList
     /\ r.s.mStreamingCulledList = mStreamingCulledList

LoopingCreateSucceeds(desc, r) ==
  /\ r.s.fatal = NoFatal
  /\ r.ret # NULL_AUDIOHANDLE
  /\ r.ret.looping
  /\ GetsNoVoice(Mul(desc.mVolume, mAudioTypeVolume[desc.mType]))
       => RegisteredInactiveLooper(r)

\* C12: alxCreateSource for a looping, non-streaming description and a file
\* that loads returns a non-null handle with the LOOPING bit; when the request
\* is given no voice it frees no slot and the new image is in mLoopingList and
\* in the inactive list only
C12_LoopingCreateNeverNull ==
  fatal = NoFatal =>
    \A desc \in Descriptions :
      (desc.mIsLooping /\ ~desc.mIsStreaming)
        => LoopingCreateSucceeds(desc, alxCreateSource(St, desc, "sound.wav"))

\* an audible looping source was just created while every slot was in use by
\* a voice scoring at least its volume, and waits in the inactive list
C12_Witness ==
  /\ last.op = "create" /\ last.ok /\ ~last.hadFree
  /\ last.desc.mIsLooping /\ last.desc.mVolume > MIN_GAIN
  /\ \A i \in Slots : mHandle[i] # NULL_AUDIOHANDLE /\ mHandle[i].seq # mLastHandle
  /\ cullLog # {} /\ \A e \in cullLog : ~e.ok
  /\ mLastHandle \in mLoopingInactiveList
  /\ fatal = NoFatal


\* r is the outcome of a creation that registered a streaming source, waiting
\* in the streaming inactive list and holding no slot
RegisteredInactiveStreamer(r) ==
  LET n == r.s.mLastHandle
  IN /\ n # mLastHandle
     /\ r.ret = SetStreaming(Handle(n))
     /\ n \in DOMAIN r.s.mStreamingList
     /\ n \in r.s.mStreamingInactiveList
     /\ \A i \in Slots : r.s.mHandle[i].seq # n

\* C13 as stated: alxCreateSource for a streaming description and a file that
\* opens, when the request is given no voice, returns a non-null handle with
\* the STREAMING bit and registers the source in mStreamingList and in the
\* streaming inactive list without a slot
C13_StreamingCreateWithoutVoice ==
  fatal = NoFatal =>
    \A desc \in Descriptions :
      (desc.mIsStreaming /\ GetsNoVoice(Mul(desc.mVolume, mAudioTypeVolume[desc.mType])))
        => LET r == alxCreateSource(St, desc, "sound.wav")
           IN r.s.fatal = NoFatal /\ r.ret # NULL_AUDIOHANDLE /\ RegisteredInactiveStreamer(r)


\* what a caller may pass as a description: no description, and descriptions
\* whose channel type is in range or is Audio::NumAudioTypes
ArgTypes == AudioTypes \cup {Cardinality(AudioTypes)}
ArgDescriptions ==
  {NullDescription} \cup
    {d \in [mVolume : Volumes, mIsLooping : BOOLEAN, mIsStreaming : BOOLEAN, mType : ArgTypes] :
       ~(d.mIsLooping /\ d.mIsStreaming)}

\* the requests that the claim says are turned away
TurnedAway(desc, filename) ==
  IF IsNullDescription(desc) \/ filename = "" THEN TRUE
  ELSE IF desc.mType \notin AudioTypes THEN TRUE
  ELSE /\ ~desc.mIsLooping /\ ~desc.mIsStreaming
       /\ \/ mAudioTypeVolume[desc.mType] = 0
          \/ Mul(desc.mVolume, mAudioTypeVolume[desc.mType]) < MIN_GAIN

\* C14 as stated: alxCreateSource returns the null handle and leaves every
\* slot and list as it was when the description or the file name is missing,
\* when the channel type is out of range, and for a one-shot whose channel is
\* muted or whose channel-scaled volume is below MIN_GAIN
C14_RejectedRequestReturnsNull ==
  fatal = NoFatal =>
    \A desc \in ArgDescriptions, filename \in FileNames :
      TurnedAway(desc, filename) => CreateLeavesPool(desc, filename)


\* handle h carries no INACTIVE and no LOADING bit, and its LOOPING and
\* STREAMING bits are as given
HasRoleBits(h, looping, streaming) ==
  /\ ~h.inactive /\ ~h.loading
  /\ h.looping = looping
  /\ h.streaming = streaming

HandlesInUse ==
  UserHandles \cup {mHandle[i] : i \in Slots}
    \cup {mLoopingList[id].mHandle : id \in DOMAIN mLoopingList}
    \cup {mStreamingList[id].mHandle : id \in DOMAIN mStreamingList}

\* every way of setting the four role flags of handle a
Reflagged(a) ==
  {[a EXCEPT !.looping = f[1], !.streaming = f[2], !.inactive = f[3], !.loading = f[4]] :
     f \in [1 .. 4 -> BOOLEAN]}

\* C16 as stated: areEqualHandles(a, b) is true exactly when a and b have the
\* same sequence bits, whatever their LOOPING, STREAMING, INACTIVE and LOADING
\* flags
C16_EqualHandlesIgnoresFlags ==
  \A a \in HandlesInUse :
    /\ \A b \in Reflagged(a) : areEqualHandles(a, b)
    /\ \A b \in HandlesInUse : areEqualHandles(a, b) <=> (a.seq = b.seq)


\* C17: getNewHandle returns a value that is not NULL_AUDIOHANDLE and has no
\* bit at or above the LOADING bit, so no role flag; it is the previous value
\* plus one, except after the largest sequence value, where it is 1
C17_NewHandleCounts ==
  LET n == getNewHandle(mLastHandle)
  IN /\ n # 0 /\ Handle(n) # NULL_AUDIOHANDLE
     /\ n > 0 /\ n < AUDIOHANDLE_LOADING_BIT
     /\ mLastHandle < HandleSeqMax => n = mLastHandle + 1
     /\ mLastHandle = HandleSeqMax => n = 1

\* getNewHandle was just called with the counter at the largest sequence value
C17_Witness ==
  /\ last.op = "mint" /\ last.arg = "wrapped"
  /\ mLastHandle = 1


\* dB values at and beyond both ends of the table's range
DbOutside == ((0 - GainSub) .. 0) \cup (DbOne .. (DbOne + GainSub))

\* C18: for a linear gain x in [0, 1], DBToLinear(linearToDB(x)) is less than
\* 1 / logmax away from x; linearToDB and DBToLinear return 0 for an input at
\* or below 0 and 1 for an input at or above 1; and logmax is 128
C18_GainRoundTrip ==
  /\ logmax = 128
  /\ (gain.step = "lin" /\ gain.x >= 0 /\ gain.x <= LinearOne)
       => /\ (gain.lin - gain.x) * logmax < LinearOne
          /\ (gain.x - gain.lin) * logmax < LinearOne
  /\ (gain.step \in {"db", "lin"} /\ gain.x <= 0) => gain.db = 0
  /\ (gain.step \in {"db", "lin"} /\ gain.x >= LinearOne) => gain.db = DbOne
  /\ \A v \in DbOutside : DBToLinear(v) = IF v <= 0 THEN 0 ELSE LinearOne
  /\ \A x \in GainInputs :
       /\ x <= 0 => linearToDB(x) = 0
       /\ x >= LinearOne => linearToDB(x) = DbOne

\* a gain strictly between two table steps went through linearToDB and then
\* DBToLinear, and came back as the table step below it
C18_Witness ==
  /\ gain.step = "lin"
  /\ gain.x > GainSub /\ gain.x < LinearOne
  /\ gain.x % GainSub # 0
  /\ gain.lin # gain.x /\ gain.lin > 0


\* slot i holds a source that was played and whose voice has stopped
PlayedAndStopped(i) ==
  /\ mHandle[i] # NULL_AUDIOHANDLE
  /\ ~mHandle[i].inactive /\ ~mHandle[i].loading
  /\ ~alPlaying[i]

\* in s1 slot i is free and the looping image or streaming source that held
\* it waits in its culled list with the INACTIVE bit
FreedAndCulled(s1, i) ==
  LET n == mHandle[i].seq
  IN /\ s1.fatal = NoFatal
     /\ s1.mHandle[i] = NULL_AUDIOHANDLE
     /\ n \in DOMAIN mLoopingList
          => /\ n \in DOMAIN s1.mLoopingList /\ n \in s1.mLoopingCulledList
             /\ s1.mLoopingList[n].mHandle.inactive
     /\ n \in DOMAIN mStreamingList
          => /\ n \in DOMAIN s1.mStreamingList /\ n \in s1.mStreamingCulledList
             /\ s1.mStreamingList[n].mHandle.inactive

\* C19 as stated: the alxCloseHandles pass of alxUpdate frees every slot whose
\* source was played and whose voice has stopped, and a looping or streaming
\* source that held such a slot is then in its culled list with the INACTIVE
\* bit set, with no assertion failed
C19_StoppedVoiceIsCulled ==
  fatal = NoFatal =>
    \A i \in Slots : PlayedAndStopped(i) => FreedAndCulled(alxCloseHandles(St), i)


\* some voice slot holds the handle of streaming source id
StreamingActive(id) ==
  \E i \in Slots : /\ mHandle[i] # NULL_AUDIOHANDLE
                   /\ areEqualHandles(mHandle[i], mStreamingList[id].mHandle)

\* C20 as stated: while no assertion has failed, every streaming source of
\* mStreamingList that holds no voice slot has had its stream freed
C20_NoStreamWithoutVoice ==
  fatal = NoFatal =>
    \A id \in DOMAIN mStreamingList :
      ~StreamingActive(id) => ~mStreamingList[id].stream


\* in s1 streaming source id is in mStreamingList with its stream open and
\* holds a slot whose voice is playing
StreamingRestarted(s1, id) ==
  /\ id \in DOMAIN s1.mStreamingList
  /\ s1.mStreamingList[id].stream
  /\ \E i \in Slots : /\ s1.mHandle[i] # NULL_AUDIOHANDLE
                      /\ areEqualHandles(s1.mHandle[i], s1.mStreamingList[id].mHandle)
                      /\ s1.alPlaying[i]

\* C21 as stated: every streaming source that an alxUpdate takes out of the
\* streaming culled list, with a free slot or with one that cullSource freed,
\* is after it in mStreamingList, with its stream open, in a slot and playing
C21_StreamingReactivated ==
  fatal = NoFatal =>
    \A rank \in Ranks :
      LET s1 == alxUpdate(St, rank)
      IN s1.fatal = NoFatal =>
           \A id \in mStreamingCulledList :
             id \notin s1.mStreamingCulledList => StreamingRestarted(s1, id)


\* the messages of the list-membership assertions outside alxStop
MembershipMessages ==
  {"cullSource: image already in inactive list",
   "cullSource: image should not be in culled list",
   "cullSource: image already in culled list",
   "cullSource: image should no be in inactive list",
   "alxCreateSource: handle in inactive list",
   "alxCreateSource: handle in culled list",
   "alxPlay: image already in culled list",
   "alxCloseHandles: image incorrectly in inactive list",
   "alxCloseHandles: image already in culled list",
   "alxLoopingUpdate: failed to find culled source",
   "alxStreamingUpdate: failed to find culled source"}

\* C22: no list-membership assertion of cullSource, alxCreateSource, alxPlay,
\* alxCloseHandles, alxLoopingUpdate or alxStreamingUpdate has failed
C22_NoMembershipAssertFires == fatal \notin MembershipMessages

\* an alxUpdate has just evicted a voice for a culled looping source and
\* restored that source, all its assertions holding
C22_Witness ==
  /\ last.op = "update"
  /\ \E e \in cullLog : e.ok
  /\ promoLog # {}
  /\ fatal = NoFatal

\* ------------------------------------------------------------------- C23
\* no element of the order q is followed by one of strictly higher score
Descending(list, q) ==
  \A i, j \in DOMAIN q : i < j => list[q[i]].mScore >= list[q[j]].mScore

\* C23: whatever order the sort leaves equal-comparing elements in, the
\* candidates of a looping pass and of a streaming pass are processed in
\* descending order of score
C23_CandidatesInDescendingOrder ==
  fatal = NoFatal =>
    \A rank \in Ranks :
      /\ loopingCandidates(St) # {} =>
            Descending(mLoopingList, loopingOrder(St, rank))
      /\ streamingCandidates(St) # {} =>
            Descending(mStreamingList, streamingOrder(St, rank))

\* ------------------------------------------------------------------- C24
\* looping image id is culled, old enough and loud enough to be a candidate,
\* and a slot is free or some occupied slot scores strictly lower
Reactivable(id) ==
  /\ fatal = NoFatal
  /\ now > 0
  /\ id \in loopingCandidates(St)
  /\ \E i \in Slots : \/ mHandle[i] = NULL_AUDIOHANDLE
                       \/ mScore[i] < mLoopingList[id].mScore

\* looping image id holds a voice
Reactivated(id) ==
  /\ id \in DOMAIN mLoopingList
  /\ id \notin mLoopingCulledList
  /\ LoopingActive(id)

\* C24: with only ticks and the clock running, a culled looping source that is
\* a candidate and for which a slot is free or scores lower gets a voice, or
\* stops being such a candidate; it does not wait for ever
C24_CandidateNotStarved ==
  \A id \in 1 .. MaxStreamCreates :
    Reactivable(id) ~> (Reactivated(id) \/ ~Reactivable(id))

\* ------------------------------------------------------------------- C25
\* cullSource(volume) on the present state frees a slot, and does to the
\* looping image or streaming source behind that slot what the slot handle's
\* INACTIVE bit calls for
CullBooksVictim(volume) ==
  LET r == cullSource(St, volume)
      h == mHandle[r.index]
      itr == LoopingFindImage(St, DOMAIN mLoopingList, h)
      itr2 == StreamingFindImage(St, DOMAIN mStreamingList, h)
  IN r.ok =>
       /\ r.s.fatal = NoFatal
       /\ r.index \in Slots
       /\ r.s.mHandle[r.index] = NULL_AUDIOHANDLE
       /\ (itr # 0 /\ ~h.inactive) =>
             /\ r.s.mLoopingList[itr].mHandle.inactive
             /\ r.s.mLoopingList[itr].mCullTime = now
             /\ r.s.mLoopingCulledList = mLoopingCulledList \cup {itr}
             /\ r.s.mLoopingInactiveList = mLoopingInactiveList
       /\ (itr # 0 /\ h.inactive) =>
             /\ r.s.mLoopingInactiveList = mLoopingInactiveList \cup {itr}
             /\ r.s.mLoopingCulledList = mLoopingCulledList
       /\ (itr2 # 0 /\ ~h.inactive) =>
             /\ r.s.mStreamingList[itr2].mHandle.inactive
             /\ r.s.mStreamingList[itr2].mCullTime = now
             /\ r.s.mStreamingCulledList = mStreamingCulledList \cup {itr2}
             /\ r.s.mStreamingInactiveList = mStreamingInactiveList
       /\ (itr2 # 0 /\ h.inactive) =>
             /\ r.s.mStreamingInactiveList = mStreamingInactiveList \cup {itr2}
             /\ r.s.mStreamingCulledList = mStreamingCulledList

\* C25: a cullSource that evicts a looping or streaming source marks a played
\* one INACTIVE, stamps its cull time and appends it to the culled list, appends
\* an unplayed one to the inactive list, and in both cases nulls the slot
\* handle and returns the slot
C25_CullBooksLoopersAndStreamers ==
  fatal = NoFatal => \A volume \in Volumes : CullBooksVictim(volume)

\* after the clock has moved, an alxCreateSource has evicted a played looping
\* source, which now waits in the culled list stamped with the present time
C25_Witness ==
  /\ last.op = "create"
  /\ now > 0
  /\ \E e \in cullLog : e.ok
  /\ \E id \in mLoopingCulledList :
       /\ mLoopingList[id].mHandle.inactive
       /\ mLoopingList[id].mCullTime = now
       /\ ~LoopingActive(id)

\* ------------------------------------------------------------------- C26
\* handle names looping image itr of the inactive list, no slot holds it, and
\* a slot is free
InactiveWithFreeSlot(handle, itr) ==
  /\ itr # 0
  /\ alxFindIndex(St, handle) = MAX_AUDIOSOURCES
  /\ findFreeSource(St) # MAX_AUDIOSOURCES

\* in state s looping image itr holds a playing voice and waits in no list
PlayingInSlot(s, itr) ==
  /\ s.fatal = NoFatal
  /\ itr \in DOMAIN s.mLoopingList
  /\ \E i \in Slots : /\ s.mHandle[i] # NULL_AUDIOHANDLE
                       /\ areEqualHandles(s.mHandle[i], s.mLoopingList[itr].mHandle)
                       /\ s.alPlaying[i]
  /\ itr \notin s.mLoopingInactiveList
  /\ itr \notin s.mLoopingCulledList

\* C26 as stated: alxPlay on a looping source of the inactive list, called
\* with a slot free, returns with the source playing in a slot and in neither
\* the inactive nor the culled list
C26_PlayOfInactiveTakesFreeSlot ==
  fatal = NoFatal =>
    \A handle \in KnownHandles, rank \in Ranks :
      InactiveWithFreeSlot(handle, LoopingFindImage(St, mLoopingInactiveList, handle)) =>
        PlayingInSlot(alxPlay(St, handle, rank).s,
                      LoopingFindImage(St, mLoopingInactiveList, handle))

\* image itr passes alxLoopingUpdate's two tests, and no image of the culled
\* list does, so that itr is the only candidate of the pass
SoleCandidate(itr) ==
  /\ mLoopingList[itr].mScore > MIN_UNCULL_GAIN
  /\ (now - mLoopingList[itr].mCullTime) >= MIN_UNCULL_PERIOD
  /\ loopingCandidates(St) = {}

\* C26 amended: the same, for a source whose stored score is above
\* MIN_UNCULL_GAIN and whose cull time lies MIN_UNCULL_PERIOD back, when no
\* image of the culled list is a candidate as well
C26_PlayOfAudibleInactiveTakesFreeSlot ==
  fatal = NoFatal =>
    \A handle \in KnownHandles, rank \in Ranks :
      ( /\ InactiveWithFreeSlot(handle, LoopingFindImage(St, mLoopingInactiveList, handle))
        /\ SoleCandidate(LoopingFindImage(St, mLoopingInactiveList, handle)) ) =>
        PlayingInSlot(alxPlay(St, handle, rank).s,
                      LoopingFindImage(St, mLoopingInactiveList, handle))

\* an alxPlay has just woken a looping source that had never been culled into
\* a slot that was free, and the source is playing
C26_Witness ==
  /\ last.op = "play"
  /\ last.ok
  /\ cullLog = {}
  /\ \E e \in promoLog : /\ e.culledAt = -1
                          /\ PlayingInSlot(St, e.id)

\* ------------------------------------------------------------------- C27
\* handle names looping image itr of the inactive or the culled list, no slot
\* is free and no slot's score is below the image's
PendingAndNoneBelow(handle, itr) ==
  /\ itr # 0
  /\ alxFindIndex(St, handle) = MAX_AUDIOSOURCES
  /\ findFreeSource(St) = MAX_AUDIOSOURCES
  /\ \A i \in Slots : ~(mScore[i] < mLoopingList[itr].mScore)

\* alxPlay answered r: the handle came back, image itr waits in the culled list
\* without a voice, and every slot holds what it held, playing or not as before
LeftPending(r, handle, itr) ==
  /\ r.s.fatal = NoFatal
  /\ r.ret = handle
  /\ itr \in r.s.mLoopingCulledList
  /\ itr \notin r.s.mLoopingInactiveList
  /\ alxFindIndex(r.s, handle) = MAX_AUDIOSOURCES
  /\ r.s.mHandle = mHandle
  /\ r.s.alPlaying = alPlaying

\* C27: alxPlay on a looping source of the inactive or culled list, with no
\* slot free and no slot scoring below the source, returns the handle, leaves
\* the source in the culled list without a voice and evicts no voice
C27_PlayWithoutRoomEvictsNothing ==
  fatal = NoFatal =>
    \A handle \in KnownHandles, rank \in Ranks :
      PendingAndNoneBelow(handle,
          LoopingFindImage(St, mLoopingInactiveList \cup mLoopingCulledList, handle)) =>
        LeftPending(alxPlay(St, handle, rank), handle,
          LoopingFindImage(St, mLoopingInactiveList \cup mLoopingCulledList, handle))

\* no candidate of the culled list scores above any slot
NoCandidateAbove ==
  \A id \in loopingCandidates(St) :
    \A i \in Slots : ~(mScore[i] < mLoopingList[id].mScore)

\* C27 amended: the same, when no other culled source that is a candidate of
\* the pass scores above a slot either
C27_PlayWithoutRoomForAnyEvictsNothing ==
  fatal = NoFatal =>
    \A handle \in KnownHandles, rank \in Ranks :
      ( /\ PendingAndNoneBelow(handle,
              LoopingFindImage(St, mLoopingInactiveList \cup mLoopingCulledList, handle))
        /\ NoCandidateAbove ) =>
        LeftPending(alxPlay(St, handle, rank), handle,
          LoopingFindImage(St, mLoopingInactiveList \cup mLoopingCulledList, handle))

\* an alxPlay has just returned the handle of a looping source for which
\* cullSource found no slot to free: every slot is still taken, and the source
\* waits in the culled list
C27_Witness ==
  /\ last.op = "play"
  /\ last.ok
  /\ now > 0
  /\ promoLog = {}
  /\ cullLog # {}
  /\ \A e \in cullLog : ~e.ok /\ e.allGE /\ e.same
  /\ findFreeSource(St) = MAX_AUDIOSOURCES
  /\ loopingCandidates(St) # {}

\* ------------------------------------------------------------------- C28
\* cullSource(volume), called on freshly stored scores as alxCreateSource
\* calls it, frees no slot whose handle has the STREAMING or the LOADING bit
CullSparesStreams(volume) ==
  LET r == cullSource(alxUpdateScores(St, TRUE), volume)
  IN r.ok => /\ ~mHandle[r.index].streaming
             /\ ~mHandle[r.index].loading

\* C28: cullSource never chooses a slot that backs a streaming source or a
\* source that is still loading
C28_StreamsAreNeverCulled ==
  fatal = NoFatal => \A volume \in Volumes : CullSparesStreams(volume)

\* ------------------------------------------------------------------- C29
\* slot i holds the voice of looping image id
VoiceOf(id, i) ==
  /\ mHandle[i] # NULL_AUDIOHANDLE
  /\ areEqualHandles(mHandle[i], mLoopingList[id].mHandle)

\* C29: a looping source whose pitch was set while it had no voice, and that
\* a reactivation pass has just given a voice, plays at that pitch
C29_CachedPitchApplied ==
  \A e \in promoLog :
    (e.id \in DOMAIN mLoopingList /\ mLoopingList[e.id].gPitch # -1) =>
      \A i \in Slots : VoiceOf(e.id, i) => alPitch[i] = mLoopingList[e.id].gPitch

\* ------------------------------------------------------------------- C30
\* C30: for every looping source whose linear gain has been set, playing or
\* waiting, evicted or reactivated since, alxGetSourcef answers the gain last set
C30_GainReadBack ==
  fatal = NoFatal =>
    \A id \in DOMAIN mLoopingList :
      mLoopingList[id].gGain # -1 =>
        alxGetSourcef(St, RETURN_MASK(mLoopingList[id].mHandle), "AL_GAIN_LINEAR")
          = mLoopingList[id].gGain

\* a looping source whose gain was set to a value of its own has since been
\* culled and given a voice again
C30_Witness ==
  /\ last.op = "update"
  /\ \E e \in promoLog :
       /\ e.id \in DOMAIN mLoopingList
       /\ e.culledAt # -1
       /\ mLoopingList[e.id].gGain \in ParamValues["AL_GAIN_LINEAR"]
       /\ \E i \in Slots : VoiceOf(e.id, i) /\ mSourceVolume[i] = mLoopingList[e.id].gGain


\* the state in which alxUpdate starts its two reactivation passes
BeforePasses == updateScored(alxCloseHandles(St))

\* every occupied slot has a playing voice or the LOADING bit
OccupiedArePlayingOrLoading ==
  \A i \in Slots :
    mHandle[i] # NULL_AUDIOHANDLE => (alPlaying[i] \/ mHandle[i].loading)

\* C31: a slot whose source was played and whose voice has stopped is free
\* when alxUpdate has run alxCloseHandles and alxUpdateScores, so the
\* reactivation passes of that tick find a free slot; and in the state an
\* alxUpdate leaves, every occupied slot is playing or carries the LOADING bit
C31_StoppedVoiceFreedBeforePasses ==
  fatal = NoFatal =>
    /\ \A i \in Slots :
         PlayedAndStopped(i) =>
           /\ BeforePasses.fatal = NoFatal
           /\ BeforePasses.mHandle[i] = NULL_AUDIOHANDLE
           /\ findFreeSource(BeforePasses) # MAX_AUDIOSOURCES
    /\ last.op = "update" => OccupiedArePlayingOrLoading

\* an alxUpdate has just reactivated a looping image that lost its voice at
\* this very time, and voices are playing
C31_Witness ==
  /\ fatal = NoFatal
  /\ last.op = "update"
  /\ \E e \in promoLog : e.culledAt = now /\ e.id \in DOMAIN mLoopingList
  /\ \E i \in Slots : mHandle[i] # NULL_AUDIOHANDLE /\ alPlaying[i]


\* slot i holds a source that alxCreateSource placed there and that was not
\* played yet
CreatedNotPlayed(i) ==
  mHandle[i] # NULL_AUDIOHANDLE /\ mHandle[i].inactive

\* in s1, the state an alxUpdate left without evicting any voice, slot i still
\* holds the handle h, and alxIsValidHandle and alxPlay accept it
StillHeld(s1, i, h, rank) ==
  (s1.fatal = NoFatal /\ \A e \in s1.cullLog : ~e.ok) =>
    /\ s1.mHandle[i] = h
    /\ alxIsValidHandle(s1, RETURN_MASK(h))
    /\ alxPlay(s1, RETURN_MASK(h), rank).ret # NULL_AUDIOHANDLE

\* C32 as stated: a source that holds a slot and was not played yet still
\* holds that slot after an alxUpdate that evicted nothing, and its handle is
\* still valid and can still be played
C32_UnplayedSlotSurvivesUpdate ==
  fatal = NoFatal =>
    \A i \in Slots :
      CreatedNotPlayed(i) =>
        \A rank \in Ranks : StillHeld(alxUpdate(St, rank), i, mHandle[i], rank)


\* C33 as stated: whenever alxCreateSource returns the null handle, the voice
\* slots hold the handles they held before the call and every looping and
\* streaming list has the members it had
C33_NullCreateLeavesPool ==
  fatal = NoFatal =>
    \A desc \in Descriptions, filename \in FileNames :
      LET r == alxCreateSource(St, desc, filename)
      IN (r.ret = NULL_AUDIOHANDLE /\ r.s.fatal = NoFatal) => Pool(r.s) = Pool(St)


\* the image or streaming source src, which entered a culled list at time
\* gCull, carries that time as its cull timestamp
StampedWhenCulled(src) == src.gCull # -1 => src.mCullTime = src.gCull

\* C34 as stated: every looping image and streaming source in a culled list
\* that cullSource or alxCloseHandles put there has mCullTime equal to the time
\* it was put there, and the move alxPlay makes of an inactive looping image
\* to the culled list leaves it with mCullTime equal to the current time
C34_CullTimeIsTimeOfCulling ==
  fatal = NoFatal =>
    /\ \A id \in mLoopingCulledList : StampedWhenCulled(mLoopingList[id])
    /\ \A id \in mStreamingCulledList : StampedWhenCulled(mStreamingList[id])
    /\ \A itr \in mLoopingInactiveList :
         loopingPend(St, itr).mLoopingList[itr].mCullTime = now


\* C35 as stated: a streaming source that an alxStreamingUpdate has just
\* taken out of the culled list had its stream initialised and its gain, cone
\* and position set on the voice of the slot it was given
C35_StreamConfiguredOnItsNewVoice ==
  fatal = NoFatal =>
    \A e \in promoLog :
      e.id \in DOMAIN mStreamingList =>
        mStreamingList[e.id].gVoice = mStreamingList[e.id].mSource


\* C36: a looping image whose handle alxPlay has accepted is never in
\* mLoopingInactiveList
C36_PlayedLooperNeverInactive ==
  fatal = NoFatal =>
    \A id \in mLoopingInactiveList : ~mLoopingList[id].gPlayed

\* a creation has just evicted a looping image that had been played: it waits
\* in the culled list
C36_Witness ==
  /\ fatal = NoFatal
  /\ last.op = "create"
  /\ \E e \in cullLog : e.ok
  /\ \E id \in mLoopingCulledList :
       /\ mLoopingList[id].gPlayed
       /\ mLoopingList[id].gCull = now
       /\ mLoopingList[id].mCullTime = now
  /\ now > 0


\* no voice slot holds the handle h
InNoSlot(h) ==
  \A i \in Slots : mHandle[i] = NULL_AUDIOHANDLE \/ ~areEqualHandles(mHandle[i], h)

\* C37: the looping inactive and culled lists are disjoint, every image in
\* either has the INACTIVE bit in its handle and no voice slot holds that
\* handle; likewise for the streaming inactive and culled lists
C37_WaitingSetsDisjointAndVoiceless ==
  fatal = NoFatal =>
    /\ mLoopingInactiveList \cap mLoopingCulledList = {}
    /\ \A id \in mLoopingInactiveList \cup mLoopingCulledList :
         /\ id \in DOMAIN mLoopingList
         /\ mLoopingList[id].mHandle.inactive
         /\ InNoSlot(mLoopingList[id].mHandle)
    /\ mStreamingInactiveList \cap mStreamingCulledList = {}
    /\ \A id \in mStreamingInactiveList \cup mStreamingCulledList :
         /\ id \in DOMAIN mStreamingList
         /\ mStreamingList[id].mHandle.inactive
         /\ InNoSlot(mStreamingList[id].mHandle)

\* a looping image waits in the culled list and a streaming source waits in
\* one of its lists, while a voice is in use
C37_Witness ==
  /\ fatal = NoFatal
  /\ mLoopingCulledList # {}
  /\ mStreamingInactiveList \cup mStreamingCulledList # {}
  /\ \E i \in Slots : mHandle[i] # NULL_AUDIOHANDLE


\* the distance of table entry i (counted from 0) from y
TableDistance(i, y) ==
  IF logtab[i + 1] >= y THEN logtab[i + 1] - y ELSE y - logtab[i + 1]

\* i is the index of a table entry that no other entry is closer to y than
ClosestEntry(i, y) ==
  \A j \in 0 .. (logmax - 1) : TableDistance(i, y) <= TableDistance(j, y)

\* i is the index of the last table entry that is not above y
LastEntryNotAbove(i, y) ==
  /\ logtab[i + 1] <= y
  /\ \A j \in 0 .. (logmax - 1) : logtab[j + 1] <= y => j <= i

\* C38 as stated: for y strictly between 0 and 1, DBToLinear(y) is i / logmax
\* for an index i whose table entry is closest to y
C38_DBToLinearClosestEntry ==
  (gain.step = "dblin" /\ gain.db > 0 /\ gain.db < DbOne) =>
    \E i \in 0 .. (logmax - 1) :
      ClosestEntry(i, gain.db) /\ gain.lin * logmax = i * LinearOne

\* C38 amended: for y strictly between 0 and 1, DBToLinear(y) is i / logmax
\* for the index i of the last table entry that is not above y
C38_DBToLinearLastEntryNotAbove ==
  (gain.step = "dblin" /\ gain.db > 0 /\ gain.db < DbOne) =>
    \E i \in 0 .. (logmax - 1) :
      LastEntryNotAbove(i, gain.db) /\ gain.lin * logmax = i * LinearOne

\* DBToLinear has answered for a value that lies between two table entries,
\* nearer to the upper one
C38_Witness ==
  /\ gain.step = "dblin"
  /\ gain.db > 0 /\ gain.db < DbOne
  /\ \A i \in 0 .. (logmax - 1) : logtab[i + 1] # gain.db
  /\ \E i \in 0 .. (logmax - 1) :
       /\ ClosestEntry(i, gain.db)
       /\ logtab[i + 1] > gain.db
       /\ gain.lin * logmax = (i - 1) * LinearOne


\* C39 as stated: alxSourcef(handle, AL_CONE_OUTER_GAIN, g) leaves the
\* mDescription.mMaxDistance of every looping image and streaming source as it
\* was
C39_ConeGainLeavesMaxDistance ==
  fatal = NoFatal =>
    \A handle \in KnownHandles, g \in ConeGains :
      LET s1 == alxSourcef(St, handle, "AL_CONE_OUTER_GAIN", g)
      IN /\ \A id \in DOMAIN mLoopingList :
              s1.mLoopingList[id].mMaxDistance = mLoopingList[id].mMaxDistance
         /\ \A id \in DOMAIN mStreamingList :
              s1.mStreamingList[id].mMaxDistance = mStreamingList[id].mMaxDistance


====
